---- MODULE Spec2Model ----
(***************************************************************************)
(* A model of the prop-amm simulation engine: the AMM state object         *)
(* (crates/sim/src/amm.rs), the native quote executor, the reference       *)
(* constant-product normalizer, the arbitrageur, the order router, the     *)
(* per-simulation driver and the parallel batch runner.                    *)
(*                                                                         *)
(* Number representation.  An f64 amount is an integer count of ticks; one *)
(* tick is the smallest amount the model tells apart.  MIN_RESERVE is one  *)
(* tick and one nano unit (the u64 fixed-point quantum of the quote ABI)   *)
(* is TICKS_PER_NANO = 1000 ticks, which is the ratio 1e-9 / 1e-12 of the  *)
(* source.  The non-finite f64 values are the three integers NaN, INF and  *)
(* NEG_INF outside the finite range [-F64_MAX, F64_MAX]; every comparison  *)
(* and arithmetic operation on amounts goes through the operators below,   *)
(* which give them IEEE-754 meaning (a comparison with NaN is false, an    *)
(* overflowing sum is an infinity).  Prices and other pure numbers are     *)
(* plain integers.  TLC's integers are 32 bits wide, so the u64 range of   *)
(* the quote ABI is U64_BITS wide in the model and the trade-size          *)
(* thresholds (MIN_INPUT, MIN_TRADE_SIZE) are 10 nano units.               *)
(***************************************************************************)
EXTENDS Integers, Sequences, FiniteSets, TLC

VARIABLES
    amm_sub,          \* the submission AMM (BpfAmm)
    amm_norm,         \* the normalizer AMM (BpfAmm)
    last,             \* the last call: operation, input, result, hook invoked
    ncalls,           \* number of AMM-level calls made (bounds the exploration)
    build,            \* "debug": integer overflow panics; "release": it wraps
    libs,             \* "strict": rand_distr rejects a non-finite sigma; "lenient": it does not
    panic,            \* "none", or what ended the process: "shape", "arith" or "unwrap"
    cfg,              \* the SimulationConfig of the simulation
    prog,             \* the submission: its pricing function and after-trade hook
    run,              \* which run of the same program and config this is
    pc,               \* where run_sim_inner stands
    step,             \* the loop variable of run_sim_inner
    price,            \* GBMPriceProcess
    retail,           \* RetailTrader
    arb,              \* Arbitrageur
    orders,           \* the orders of this step not yet routed
    submission_edge,  \* the running total of run_sim_inner
    results,          \* the SimResult of every finished run
    last_arb,         \* the last execute_arb call: candidates and result
    last_trades,      \* the trades of the last route_order call
    last_route,       \* the last route_order call: its samples, best split and executes
    configs,          \* run_batch_native: the configs handed in
    n_workers,        \* size of the thread pool
    running,          \* per worker, the index of the config it runs (0: idle)
    completed,        \* finished simulations, in the order they finished
    batch_out         \* what run_batch_native gave its caller

ammvars == <<amm_sub, amm_norm, last, ncalls, build, libs, panic>>
simvars == <<cfg, prog, run, pc, step, price, retail, arb, orders, submission_edge,
             results, last_arb, last_trades, last_route>>
batchvars == <<configs, n_workers, running, completed, batch_out>>
vars == <<ammvars, simvars, batchvars>>

(***************************************************************************)
(* Bounds of the model.                                                    *)
(***************************************************************************)
F64_MAX == 1000000000
U64_BITS == 14
MaxCalls == 2
RNG_MOD == 16
MaxOrders == 2
MaxSeed == 2
Runs == 2
MaxWorkers == 2

(***************************************************************************)
(* let bindings.  A local of the source that is computed once and read     *)
(* several times is the argument of a LAMBDA: Bind(e, LAMBDA v : body) is  *)
(* `let v = e; body`.                                                      *)
(***************************************************************************)
Bind(v, Op(_)) == Op(v)
Bind2(v, w, Op(_, _)) == Op(v, w)
\* the values of f over 1..n as a sequence, each computed once
Collect(f) == f \o <<>>

(***************************************************************************)
(* f64 arithmetic.                                                         *)
(***************************************************************************)
INF == F64_MAX + 1
NEG_INF == 0 - (F64_MAX + 1)
NaN == F64_MAX + 2

IsNaN(v) == v = NaN
IsFinite(v) == v # NaN /\ v # INF /\ v # NEG_INF

Lt(a, b) == ~IsNaN(a) /\ ~IsNaN(b) /\ a < b
Le(a, b) == ~IsNaN(a) /\ ~IsNaN(b) /\ a <= b
Gt(a, b) == Lt(b, a)
Ge(a, b) == Le(b, a)

Abs(n) == IF n < 0 THEN 0 - n ELSE n
Sign(n) == IF n < 0 THEN 0 - 1 ELSE IF n > 0 THEN 1 ELSE 0

\* Round a finite integer result into the f64 range.
Sat(n) == IF n > F64_MAX THEN INF ELSE IF n < 0 - F64_MAX THEN NEG_INF ELSE n

FNeg(a) == IF IsNaN(a) THEN NaN ELSE 0 - a

FAdd(a, b) ==
    IF IsNaN(a) \/ IsNaN(b) THEN NaN
    ELSE IF ~IsFinite(a) THEN (IF ~IsFinite(b) /\ b # a THEN NaN ELSE a)
    ELSE IF ~IsFinite(b) THEN b
    ELSE Sat(a + b)

FSub(a, b) == FAdd(a, FNeg(b))

\* a * b; the product of two finite values overflows to an infinity.
FMul(a, b) ==
    IF IsNaN(a) \/ IsNaN(b) THEN NaN
    ELSE IF a = 0 \/ b = 0 THEN (IF IsFinite(a) /\ IsFinite(b) THEN 0 ELSE NaN)
    ELSE IF ~IsFinite(a) \/ ~IsFinite(b) THEN (IF Sign(a) = Sign(b) THEN INF ELSE NEG_INF)
    ELSE IF Abs(a) > F64_MAX \div Abs(b) THEN (IF Sign(a) = Sign(b) THEN INF ELSE NEG_INF)
    ELSE a * b

\* a / b, rounded toward zero to a whole number of ticks.
FDiv(a, b) ==
    IF IsNaN(a) \/ IsNaN(b) THEN NaN
    ELSE IF ~IsFinite(a) THEN (IF ~IsFinite(b) THEN NaN
                               ELSE IF Sign(a) * Sign(b) >= 0 THEN a ELSE 0 - a)
    ELSE IF ~IsFinite(b) THEN 0
    ELSE IF b = 0 THEN (IF a = 0 THEN NaN ELSE IF a > 0 THEN INF ELSE NEG_INF)
    ELSE Sign(a) * Sign(b) * (Abs(a) \div Abs(b))

\* f64::max and f64::min return the other operand when one is NaN.
FMax(a, b) == IF IsNaN(a) THEN b ELSE IF IsNaN(b) THEN a ELSE IF a >= b THEN a ELSE b
FMin(a, b) == IF IsNaN(a) THEN b ELSE IF IsNaN(b) THEN a ELSE IF a <= b THEN a ELSE b

\* f64::clamp with lo <= hi: NaN stays NaN.
FClamp(v, lo, hi) == IF IsNaN(v) THEN NaN ELSE IF v < lo THEN lo ELSE IF v > hi THEN hi ELSE v

(***************************************************************************)
(* Fixed-point codec (crates/shared/src/nano.rs).                          *)
(***************************************************************************)
TICKS_PER_NANO == 1000
U64_MAX == 2^U64_BITS - 1

\* (value * NANO_SCALE_F64) as u64: the cast truncates toward zero and
\* saturates; NaN and negative values cast to 0.
f64_to_nano(value) ==
    IF IsNaN(value) THEN 0
    ELSE IF value <= 0 THEN 0
    ELSE IF value = INF \/ value \div TICKS_PER_NANO > U64_MAX THEN U64_MAX
    ELSE value \div TICKS_PER_NANO

\* value as f64 / NANO_SCALE_F64
nano_to_f64(value) == value * TICKS_PER_NANO

(***************************************************************************)
(* Storage and instruction frames (crates/shared/src/instruction.rs).      *)
(***************************************************************************)
STORAGE_SIZE == 1024

\* a flaw the properties must catch: the buffer of the simulation before
\* this one handed on to the next
StaleStorage ==
    IF results = <<>> THEN [i \in 1..STORAGE_SIZE |-> 0] ELSE amm_sub.storage

Min(a, b) == IF a <= b THEN a ELSE b
Max(a, b) == IF a >= b THEN a ELSE b

ZeroStorage == [i \in 1..STORAGE_SIZE |-> 0]

INSTRUCTION_SIZE == 25
SWAP_INSTRUCTION_SIZE == INSTRUCTION_SIZE + STORAGE_SIZE
AFTER_SWAP_SIZE == 1 + 1 + 8 + 8 + 8 + 8 + STORAGE_SIZE

\* a flaw the properties must catch: the fields written big-endian
to_be_bytes(n) ==
    <<0, 0, 0, 0,
      (n \div 16777216) % 256, (n \div 65536) % 256, (n \div 256) % 256, n % 256>>

\* u64::to_le_bytes.  The integers of the model stay below 2^31, so the
\* four high bytes of a field are 0.
to_le_bytes(n) ==
    <<n % 256, (n \div 256) % 256, (n \div 65536) % 256, (n \div 16777216) % 256,
      0, 0, 0, 0>>

\* u64::from_le_bytes(data[at..at + 8]) with the zero-based offset of the
\* source; a field whose high bytes are set reads as the largest integer
\* of the model.
u64_at(data, at) ==
    IF data[at + 5] # 0 \/ data[at + 6] # 0 \/ data[at + 7] # 0 \/ data[at + 8] # 0
       \/ data[at + 4] >= 128
    THEN 2147483647
    ELSE data[at + 1] + 256 * data[at + 2] + 65536 * data[at + 3]
         + 16777216 * data[at + 4]

\* The zeroed STORAGE_SIZE buffer with storage[..copy_len] copied in.
storage_frame(storage) ==
    IF Len(storage) = STORAGE_SIZE THEN storage
    ELSE [i \in 1..STORAGE_SIZE |->
            IF i <= Min(Len(storage), STORAGE_SIZE) THEN storage[i] ELSE 0]

\* encode_instruction: side | input_amount | reserve_x | reserve_y.
encode_instruction(side, input_amount, reserve_x, reserve_y) ==
    <<side>> \o to_le_bytes(input_amount) \o to_le_bytes(reserve_x)
             \o to_le_bytes(reserve_y)

\* decode_instruction: (side, amount, rx, ry) of a frame of 25 bytes or more.
decode_instruction(data) ==
    <<data[1], u64_at(data, 1), u64_at(data, 9), u64_at(data, 17)>>

\* The quote frame: side | input_amount | reserve_x | reserve_y | storage.
encode_swap_instruction(side, input_amount, reserve_x, reserve_y, storage) ==
    encode_instruction(side, input_amount, reserve_x, reserve_y) \o storage_frame(storage)

\* The after-trade frame: tag 2 | side | input | output | post reserves | storage.
encode_after_swap(side, input_amount, output_amount, reserve_x, reserve_y, storage) ==
    <<2, side>> \o to_le_bytes(input_amount) \o to_le_bytes(output_amount)
                \o to_le_bytes(reserve_x) \o to_le_bytes(reserve_y)
                \o storage_frame(storage)

\* decode_after_swap: (side, input, output, rx, ry, storage) of a frame of
\* 34 bytes or more; the storage is everything from byte 34 on.
decode_after_swap(data) ==
    <<data[2], u64_at(data, 2), u64_at(data, 10), u64_at(data, 18), u64_at(data, 26),
      SubSeq(data, 35, Len(data))>>

\* The header fields as the pricing functions parse them from the frame.
frame_side(data) == data[1]
frame_input(data) == u64_at(data, 1)
frame_rx(data) == u64_at(data, 9)
frame_ry(data) == u64_at(data, 17)

\* u16::from_le_bytes([s[0], s[1]])
U16LE(storage) == storage[1] + 256 * storage[2]

\* u16::to_le_bytes
U16ToLE(n) == <<n % 256, (n \div 256) % 256>>

(***************************************************************************)
(* Pricing functions (SwapFn) and after-trade hooks (AfterSwapFn).  The    *)
(* simulator is handed these by its caller; the model draws them from the  *)
(* functions the repository ships and tests with.                          *)
(***************************************************************************)
\* normalizer::compute_swap: constant product, fee in bps read from storage.
NormalizerSwap == [kind |-> "normalizer", a |-> 0, b |-> 0]
\* starter compute_swap: constant product keeping 950/1000 of the input.
StarterSwap == [kind |-> "starter", a |-> 950, b |-> 1000]
\* linear_quote_swap(data, buy_price, sell_price) of the arbitrageur's tests.
LinearSwap(buy_price, sell_price) == [kind |-> "linear", a |-> buy_price, b |-> sell_price]
\* linear_swap of the integration tests: the output is the input amount.
EchoSwap == [kind |-> "echo", a |-> 0, b |-> 0]
\* A pricing function that answers the same raw u64 whatever it is asked.
ConstSwap(c) == [kind |-> "const", a |-> c, b |-> 0]

\* a.saturating_sub(b) on unsigned integers
saturating_sub(a, b) == IF a >= b THEN a - b ELSE 0

\* fee_bps of normalizer::compute_swap: storage bytes 0..2, 0 meaning 30.
swap_fee_bps(data) ==
    IF data[26] + 256 * data[27] = 0 THEN 30 ELSE data[26] + 256 * data[27]

\* Whether normalizer::compute_swap evaluates 10000 - fee_bps with
\* fee_bps > 10000: an unsigned subtraction below zero, which panics in a
\* build with overflow checks and wraps around in one without.
compute_swap_overflows(data) ==
    /\ frame_rx(data) # 0 /\ frame_ry(data) # 0
    /\ frame_side(data) \in {0, 1}
    /\ swap_fee_bps(data) > 10000

\* a flaw the properties must catch: k / new_in rounded down
cp_output_floor(reserve_in, reserve_out, net) ==
    saturating_sub(reserve_out, (reserve_in * reserve_out) \div (reserve_in + net))

\* The constant-product output for a net input: reserve_out - ceil(k / new_in).
cp_output(reserve_in, reserve_out, net) ==
    saturating_sub(reserve_out,
                   (reserve_in * reserve_out + (reserve_in + net) - 1) \div (reserve_in + net))

\* a flaw the properties must catch: the remainder of the fee division
\* taken for the net input
compute_swap_fee_remainder(data) ==
    IF frame_rx(data) = 0 \/ frame_ry(data) = 0 THEN 0
    ELSE IF frame_side(data) \notin {0, 1} THEN 0
    ELSE Bind((frame_input(data) * (10000 - Min(swap_fee_bps(data), 10000))) % 10000,
              LAMBDA net :
             IF frame_side(data) = 0 THEN cp_output(frame_ry(data), frame_rx(data), net)
             ELSE cp_output(frame_rx(data), frame_ry(data), net))

\* the largest u128, two u64 wide
U128_MAX == 2^(2 * U64_BITS) - 1

\* the values normalizer::compute_swap computes in u128 on the way to its
\* result, for reserves above 0, a side of 0 or 1 and fee_bps <= 10000:
\* input * (10000 - fee_bps), k, new reserve, k + new reserve - 1
compute_swap_intermediates(data) ==
    LET reserve_in == IF frame_side(data) = 0 THEN frame_ry(data) ELSE frame_rx(data)
        scaled == frame_input(data) * (10000 - swap_fee_bps(data))
        k == frame_rx(data) * frame_ry(data)
    IN  {scaled, k, reserve_in + scaled \div 10000, k + (reserve_in + scaled \div 10000) - 1}

\* normalizer::compute_swap.  With fee_bps > 10000 and wrapping arithmetic
\* the factor 10000 - fee_bps is 2^128 - (fee_bps - 10000): any input >= 1
\* nets more than 2^128 / 10001, which exceeds k for all reserves the
\* simulator holds, so ceil(k / new_reserve) is 1.
compute_swap(data) ==
    IF frame_rx(data) = 0 \/ frame_ry(data) = 0 THEN 0
    ELSE IF frame_side(data) \notin {0, 1} THEN 0
    ELSE IF swap_fee_bps(data) > 10000
         THEN (IF frame_input(data) = 0 THEN 0
               ELSE IF frame_side(data) = 0 THEN saturating_sub(frame_rx(data), 1)
               ELSE saturating_sub(frame_ry(data), 1))
    ELSE Bind((frame_input(data) * (10000 - swap_fee_bps(data))) \div 10000, LAMBDA net :
             IF frame_side(data) = 0 THEN cp_output(frame_ry(data), frame_rx(data), net)
             ELSE cp_output(frame_rx(data), frame_ry(data), net))

\* compute_swap of the starter strategy.
starter_swap(data, fee_numerator, fee_denominator) ==
    IF frame_rx(data) = 0 \/ frame_ry(data) = 0 THEN 0
    ELSE IF frame_side(data) \notin {0, 1} THEN 0
    ELSE Bind((frame_input(data) * fee_numerator) \div fee_denominator, LAMBDA net :
             IF frame_side(data) = 0 THEN cp_output(frame_ry(data), frame_rx(data), net)
             ELSE cp_output(frame_rx(data), frame_ry(data), net))

\* linear_quote_swap: input / buy_price on side 0, input * sell_price on
\* side 1, floored to nano and saturated to u64.
linear_quote_swap(data, buy_price, sell_price) ==
    IF frame_input(data) <= 0 THEN 0
    ELSE IF frame_side(data) = 0 THEN frame_input(data) \div buy_price
    ELSE IF frame_side(data) = 1
         THEN (IF frame_input(data) > U64_MAX \div sell_price THEN U64_MAX
               ELSE frame_input(data) * sell_price)
    ELSE 0

\* (self.swap_fn)(&data)
SwapFnApply(swap_fn, data) ==
    CASE swap_fn.kind = "normalizer" -> compute_swap(data)
      [] swap_fn.kind = "starter" -> starter_swap(data, swap_fn.a, swap_fn.b)
      [] swap_fn.kind = "linear" -> linear_quote_swap(data, swap_fn.a, swap_fn.b)
      [] swap_fn.kind = "echo" -> frame_input(data)
      [] swap_fn.kind = "convex" ->
            Min((frame_input(data) * frame_input(data)) \div swap_fn.a, U64_MAX)
      [] OTHER -> swap_fn.a

SwapFnOverflows(swap_fn, data) ==
    swap_fn.kind = "normalizer" /\ compute_swap_overflows(data)

\* After-trade hooks: "noop" is normalizer::after_swap and the starter's
\* hook; "count" counts trades in storage byte 2; "fee_step" raises the fee
\* held in storage bytes 0..2 by FEE_STEP bps up to FEE_CAP.
FEE_STEP == 2500
FEE_CAP == 9000
AfterSwapFns == {"noop", "count", "fee_step"}

\* the bytes of an after-trade frame before its copy of the storage, and
\* the u64 that follows them
RECORD_LEN == AFTER_SWAP_SIZE - STORAGE_SIZE + 8

AfterSwapApply(after_swap_fn, data, storage) ==
    CASE after_swap_fn = "count" -> [storage EXCEPT ![3] = (storage[3] + 1) % 256]
      [] after_swap_fn = "record" ->
            [i \in 1..Len(storage) |->
                IF i <= RECORD_LEN THEN data[i]
                ELSE IF i = RECORD_LEN + 1 THEN (storage[i] + 1) % 256
                ELSE storage[i]]
      [] after_swap_fn = "fee_step" ->
            Bind(U16ToLE(Min((IF U16LE(storage) = 0 THEN 30 ELSE U16LE(storage)) + FEE_STEP,
                             FEE_CAP)), LAMBDA fee :
                [storage EXCEPT ![1] = fee[1], ![2] = fee[2]])
      [] OTHER -> storage

(***************************************************************************)
(* Native executor (crates/executor/src/native.rs).                        *)
(***************************************************************************)
NativeExecutor_new(swap_fn, after_swap_fn) ==
    [kind |-> "native", swap_fn |-> swap_fn, after_swap_fn |-> after_swap_fn]

NativeExecutor_execute(exec, side, amount, rx, ry, storage) ==
    SwapFnApply(exec.swap_fn, encode_swap_instruction(side, amount, rx, ry, storage))

\* after_swap_fn "none" is Option::None: the hook is not called.  The frame
\* of instruction.rs has no field for the step the executor is handed.
NativeExecutor_execute_after_swap(exec, side, input_amount, output_amount, rx, ry, current_step, storage) ==
    IF exec.after_swap_fn = "none" THEN storage
    ELSE AfterSwapApply(exec.after_swap_fn,
                        encode_after_swap(side, input_amount, output_amount, rx, ry, storage),
                        storage)

(***************************************************************************)
(* Sandboxed executor (crates/executor/src/vm.rs, syscalls.rs).  A loaded  *)
(* program is the sequence of steps its entry point takes for a quote      *)
(* frame and for an after-trade frame: instructions executed and host      *)
(* calls made, ending in a normal exit unless a step fails.                *)
(***************************************************************************)
COMPUTE_BUDGET == 100000
\* u64::MAX / 4: more than any program of the model executes
METER_DISABLED_UNITS == 2^30

\* One step of a program: op is "work" (arg instructions), "sol_log_",
\* "sol_memcpy_", "sol_memmove_", "sol_memcmp_", "sol_memset_",
\* "sol_set_return_data" (the first len bytes of the u64 that pricing
\* function arg computes from the frame), "sol_set_storage" (the first len
\* bytes of what hook arg makes of the frame's storage), "abort", or
\* "trap" (an instruction the VM faults on).
VmStep(op, arg, len) == [op |-> op, arg |-> arg, len |-> len]

BpfProgram(on_swap, on_after_swap) == [on_swap |-> on_swap, on_after_swap |-> on_after_swap]

\* the host calls BpfProgram::load registers with the loader
RegisteredSyscalls == {"sol_set_return_data", "sol_log_", "abort", "sol_set_storage"}

\* the host calls a program's code makes
program_imports(program) ==
    ({program.on_swap[i].op : i \in 1..Len(program.on_swap)}
     \cup {program.on_after_swap[i].op : i \in 1..Len(program.on_after_swap)})
    \ {"work", "trap"}

\* BpfProgram::load: Result<BpfProgram, ExecutorError>.  What the loader
\* does with a call to a function it has no registration for is left to
\* the library: it rejects the ELF (strict), or loads it and fails the
\* execution that reaches the call (lenient).
BpfProgram_load(program, library) ==
    [ok |-> library = "lenient" \/ program_imports(program) \subseteq RegisteredSyscalls,
     program |-> program]

\* process_instruction: the steps taken for this frame.
process_instruction(program, data) ==
    IF data = <<>> THEN <<>>
    ELSE IF data[1] \in {0, 1} THEN program.on_swap
    ELSE IF data[1] = 2 THEN program.on_after_swap
    ELSE <<>>

SyscallContext_new(remaining, meter_disabled) ==
    [return_data |-> to_le_bytes(0), has_return_data |-> FALSE,
     storage_data |-> ZeroStorage, has_storage_update |-> FALSE,
     remaining |-> IF meter_disabled THEN METER_DISABLED_UNITS ELSE remaining,
     meter_disabled |-> meter_disabled]

\* ContextObject::consume
consume(context, amount) ==
    IF context.meter_disabled THEN context
    ELSE [context EXCEPT !.remaining = saturating_sub(@, amount)]

\* the first len bytes of bytes, the rest up to size zero
prefix_zero_filled(bytes, len, size) ==
    [i \in 1..size |-> IF i <= len THEN bytes[i] ELSE 0]

\* SyscallSetReturnData
SyscallSetReturnData(context, bytes, len) ==
    IF len > 8 THEN [ok |-> FALSE, context |-> context]
    ELSE [ok |-> TRUE,
          context |-> [context EXCEPT !.return_data = prefix_zero_filled(bytes, len, 8),
                                      !.has_return_data = TRUE]]

\* SyscallSetStorage
SyscallSetStorage(context, bytes, len) ==
    IF len > STORAGE_SIZE THEN [ok |-> FALSE, context |-> context]
    ELSE [ok |-> TRUE,
          context |-> [context EXCEPT
                          !.storage_data = prefix_zero_filled(bytes, len, STORAGE_SIZE),
                          !.has_storage_update = TRUE]]

\* What one step does to the context; ok is FALSE when the step ends the
\* execution with an error.
vm_step(st, data, context) ==
    CASE st.op = "sol_set_return_data" ->
            SyscallSetReturnData(context, to_le_bytes(SwapFnApply(st.arg, data)), st.len)
      [] st.op = "sol_set_storage" ->
            SyscallSetStorage(context,
                              AfterSwapApply(st.arg, data, decode_after_swap(data)[6]),
                              st.len)
      [] st.op \in {"work", "sol_log_"} -> [ok |-> TRUE, context |-> context]
      [] OTHER -> [ok |-> FALSE, context |-> context]

\* instructions a step executes: a host call is one call instruction
step_cost(st) == IF st.op = "work" THEN st.arg ELSE 1

\* vm.execute_program: the steps from the i-th on.  The instruction meter
\* ends the execution with an error once the budget is used up.
RECURSIVE execute_program(_, _, _, _)
execute_program(script, i, data, context) ==
    IF i > Len(script) THEN [ok |-> TRUE, context |-> context]
    ELSE IF step_cost(script[i]) > context.remaining THEN [ok |-> FALSE, context |-> context]
    ELSE Bind(vm_step(script[i], data, consume(context, step_cost(script[i]))), LAMBDA r :
             IF r.ok THEN execute_program(script, i + 1, data, r.context) ELSE r)

BpfExecutor_new(program, meter_disabled) ==
    [kind |-> "bpf", program |-> program, meter_disabled |-> meter_disabled]

\* BpfExecutor::run_vm on the frame written to the input buffer
run_vm(exec, data) ==
    execute_program(process_instruction(exec.program, data), 1, data,
                    SyscallContext_new(COMPUTE_BUDGET, exec.meter_disabled))

\* BpfExecutor::execute: Result<u64, ExecutorError>
BpfExecutor_execute(exec, side, amount, rx, ry, storage) ==
    Bind(run_vm(exec, encode_swap_instruction(side, amount, rx, ry, storage)), LAMBDA r :
        IF ~r.ok THEN [ok |-> FALSE, value |-> 0]
        ELSE IF ~r.context.has_return_data THEN [ok |-> FALSE, value |-> 0]
        ELSE [ok |-> TRUE, value |-> u64_at(r.context.return_data, 0)])

\* a flaw the properties must catch: the storage a program set taken over
\* although its execution failed
BpfExecutor_execute_after_swap_keeps_update(exec, side, input_amount, output_amount, rx, ry, storage) ==
    Bind(run_vm(exec, encode_after_swap(side, input_amount, output_amount, rx, ry, storage)),
         LAMBDA r :
        [ok |-> r.ok,
         storage |-> IF r.context.has_storage_update THEN r.context.storage_data
                     ELSE storage])

\* BpfExecutor::execute_after_swap: Result<(), ExecutorError> and the
\* caller's storage buffer afterwards.
BpfExecutor_execute_after_swap(exec, side, input_amount, output_amount, rx, ry, storage) ==
    Bind(run_vm(exec, encode_after_swap(side, input_amount, output_amount, rx, ry, storage)),
         LAMBDA r :
        IF ~r.ok THEN [ok |-> FALSE, storage |-> storage]
        ELSE IF r.context.has_storage_update
        THEN [ok |-> TRUE,
              storage |-> [i \in 1..Len(storage) |->
                              IF i <= Min(Len(storage), STORAGE_SIZE)
                              THEN r.context.storage_data[i] ELSE storage[i]]]
        ELSE [ok |-> TRUE, storage |-> storage])

(***************************************************************************)
(* AMM state (crates/sim/src/amm.rs).                                      *)
(***************************************************************************)
MIN_RESERVE == 1

BpfAmm_new_native(swap_fn, after_swap_fn, reserve_x, reserve_y, name) ==
    [backend |-> NativeExecutor_new(swap_fn, after_swap_fn),
     reserve_x |-> reserve_x, reserve_y |-> reserve_y, name |-> name,
     storage |-> ZeroStorage, current_step |-> 0]

BpfAmm_new(program, meter_disabled, reserve_x, reserve_y, name) ==
    [backend |-> BpfExecutor_new(program, meter_disabled),
     reserve_x |-> reserve_x, reserve_y |-> reserve_y, name |-> name,
     storage |-> ZeroStorage, current_step |-> 0]

\* a flaw the properties must catch: the return data of a failed execution used
call_keeps_return_data(amm, side, amount, rx, ry) ==
    Bind(run_vm(amm.backend, encode_swap_instruction(side, amount, rx, ry, amm.storage)),
         LAMBDA r :
        IF r.context.has_return_data THEN u64_at(r.context.return_data, 0) ELSE 0)

\* BpfAmm::call: exec.execute(..).unwrap_or(0) on the sandboxed backend
call(amm, side, amount, rx, ry) ==
    IF amm.backend.kind = "bpf"
    THEN Bind(BpfExecutor_execute(amm.backend, side, amount, rx, ry, amm.storage), LAMBDA r :
             IF r.ok THEN r.value ELSE 0)
    ELSE NativeExecutor_execute(amm.backend, side, amount, rx, ry, amm.storage)

\* BpfAmm::call_after_swap: the storage after the hook ran.
call_after_swap(amm, side, input_amount, output_amount, rx, ry) ==
    IF amm.backend.kind = "bpf"
    THEN BpfExecutor_execute_after_swap(amm.backend, side, input_amount, output_amount,
                                        rx, ry, amm.storage).storage
    ELSE NativeExecutor_execute_after_swap(amm.backend, side, input_amount, output_amount,
                                           rx, ry, amm.current_step, amm.storage)

\* whether a trade on this AMM runs after-trade code
has_after_swap(amm) == amm.backend.kind = "bpf" \/ amm.backend.after_swap_fn # "none"

set_current_step(amm, new_step) == [amm EXCEPT !.current_step = new_step]

\* The guards of quote_buy_x / quote_sell_x that return 0 before the backend is called.
quote_rejects_early(amm, input) ==
    \/ Le(input, 0) \/ ~IsFinite(input)
    \/ Le(amm.reserve_x, MIN_RESERVE) \/ Le(amm.reserve_y, MIN_RESERVE)
    \/ ~IsFinite(amm.reserve_x) \/ ~IsFinite(amm.reserve_y)

quote_buy_x(amm, input_y) ==
    IF quote_rejects_early(amm, input_y) THEN 0
    ELSE Bind(nano_to_f64(call(amm, 0, f64_to_nano(input_y),
                                   f64_to_nano(amm.reserve_x), f64_to_nano(amm.reserve_y))),
              LAMBDA quoted :
                  IF ~IsFinite(quoted) \/ Le(quoted, 0) \/ Gt(quoted, amm.reserve_x) THEN 0
                  ELSE quoted)

quote_sell_x(amm, input_x) ==
    IF quote_rejects_early(amm, input_x) THEN 0
    ELSE Bind(nano_to_f64(call(amm, 1, f64_to_nano(input_x),
                                   f64_to_nano(amm.reserve_x), f64_to_nano(amm.reserve_y))),
              LAMBDA quoted :
                  IF ~IsFinite(quoted) \/ Le(quoted, 0) \/ Gt(quoted, amm.reserve_y) THEN 0
                  ELSE quoted)

\* Whether a quote of this input reaches the backend with an overflowing computation.
quote_overflows(amm, side, input) ==
    /\ ~quote_rejects_early(amm, input)
    /\ amm.backend.kind = "native"
    /\ SwapFnOverflows(amm.backend.swap_fn,
                       encode_swap_instruction(side, f64_to_nano(input),
                                               f64_to_nano(amm.reserve_x),
                                               f64_to_nano(amm.reserve_y), amm.storage))

\* What an execute leaves behind: the AMM, the value returned, and whether
\* the after-trade hook was invoked.
ExecuteResult(amm, ret, hook) == [amm |-> amm, ret |-> ret, hook |-> hook]

\* execute_buy_x without the floor on the post-trade reserves.
execute_buy_x_no_floor(amm, input_y) ==
    LET output_x == quote_buy_x(amm, input_y)
        new_rx == FSub(amm.reserve_x, output_x)
        new_ry == FAdd(amm.reserve_y, input_y)
        rejected == [amm |-> amm, ret |-> 0, hook |-> FALSE]
    IN  IF Le(input_y, 0) \/ Le(output_x, 0) \/ ~IsFinite(input_y) \/ ~IsFinite(output_x)
        THEN rejected
        ELSE IF Ge(output_x, amm.reserve_x) THEN rejected
        ELSE [amm |-> [amm EXCEPT !.reserve_x = new_rx, !.reserve_y = new_ry,
                                  !.storage = call_after_swap(amm, 0, f64_to_nano(input_y),
                                                  f64_to_nano(output_x),
                                                  f64_to_nano(new_rx), f64_to_nano(new_ry))],
              ret |-> output_x,
              hook |-> amm.backend.after_swap_fn # "none"]

\* execute_sell_x writing the reserves before it validates them.
execute_sell_x_writes_first(amm, input_x) ==
    LET output_y == quote_sell_x(amm, input_x)
        new_rx == FAdd(amm.reserve_x, input_x)
        new_ry == FSub(amm.reserve_y, output_y)
        traded == [amm EXCEPT !.reserve_x = new_rx, !.reserve_y = new_ry]
    IN  IF Le(input_x, 0) \/ Le(output_y, 0) \/ ~IsFinite(input_x) \/ ~IsFinite(output_y)
        THEN [amm |-> amm, ret |-> 0, hook |-> FALSE]
        ELSE IF Ge(output_y, amm.reserve_y) THEN [amm |-> amm, ret |-> 0, hook |-> FALSE]
        ELSE IF Le(new_rx, MIN_RESERVE) \/ Le(new_ry, MIN_RESERVE)
                \/ ~IsFinite(new_rx) \/ ~IsFinite(new_ry)
        THEN [amm |-> traded, ret |-> 0, hook |-> FALSE]
        ELSE [amm |-> [traded EXCEPT !.storage =
                          call_after_swap(traded, 1, f64_to_nano(input_x),
                                          f64_to_nano(output_y),
                                          f64_to_nano(new_rx), f64_to_nano(new_ry))],
              ret |-> output_y,
              hook |-> amm.backend.after_swap_fn # "none"]

\* a flaw the properties must catch: only the reserve paid out is written
commit_trade_output_only(amm, side, input, output, new_rx, new_ry) ==
    Bind(IF side = 0 THEN [amm EXCEPT !.reserve_x = new_rx]
         ELSE [amm EXCEPT !.reserve_y = new_ry], LAMBDA traded :
        [traded EXCEPT !.storage =
            call_after_swap(traded, side, f64_to_nano(input), f64_to_nano(output),
                            f64_to_nano(new_rx), f64_to_nano(new_ry))])

\* The reserves are written, then the after-trade hook sees the amounts
\* and the post-trade reserves and leaves the storage.
commit_trade(amm, side, input, output, new_rx, new_ry) ==
    Bind([amm EXCEPT !.reserve_x = new_rx, !.reserve_y = new_ry], LAMBDA traded :
        [traded EXCEPT !.storage =
            call_after_swap(traded, side, f64_to_nano(input), f64_to_nano(output),
                            f64_to_nano(new_rx), f64_to_nano(new_ry))])

\* execute_buy_x: the AMM after the call, the value returned, and whether
\* the after-trade hook was invoked.
execute_buy_x(amm, input_y) ==
    Bind(quote_buy_x(amm, input_y), LAMBDA output_x :
    Bind2(FSub(amm.reserve_x, output_x), FAdd(amm.reserve_y, input_y), LAMBDA new_rx, new_ry :
        IF Le(input_y, 0) \/ Le(output_x, 0) \/ ~IsFinite(input_y) \/ ~IsFinite(output_x)
        THEN ExecuteResult(amm, 0, FALSE)
        ELSE IF Ge(output_x, amm.reserve_x) THEN ExecuteResult(amm, 0, FALSE)
        ELSE IF Le(new_rx, MIN_RESERVE) \/ Le(new_ry, MIN_RESERVE)
                \/ ~IsFinite(new_rx) \/ ~IsFinite(new_ry)
        THEN ExecuteResult(amm, 0, FALSE)
        ELSE ExecuteResult(commit_trade(amm, 0, input_y, output_x, new_rx, new_ry),
                           output_x, has_after_swap(amm))))

execute_sell_x(amm, input_x) ==
    Bind(quote_sell_x(amm, input_x), LAMBDA output_y :
    Bind2(FAdd(amm.reserve_x, input_x), FSub(amm.reserve_y, output_y), LAMBDA new_rx, new_ry :
        IF Le(input_x, 0) \/ Le(output_y, 0) \/ ~IsFinite(input_x) \/ ~IsFinite(output_y)
        THEN ExecuteResult(amm, 0, FALSE)
        ELSE IF Ge(output_y, amm.reserve_y) THEN ExecuteResult(amm, 0, FALSE)
        ELSE IF Le(new_rx, MIN_RESERVE) \/ Le(new_ry, MIN_RESERVE)
                \/ ~IsFinite(new_rx) \/ ~IsFinite(new_ry)
        THEN ExecuteResult(amm, 0, FALSE)
        ELSE ExecuteResult(commit_trade(amm, 1, input_x, output_y, new_rx, new_ry),
                           output_y, has_after_swap(amm))))

spot_price(amm) ==
    IF Le(amm.reserve_x, MIN_RESERVE) \/ ~IsFinite(amm.reserve_x) \/ ~IsFinite(amm.reserve_y)
    THEN NaN
    ELSE FDiv(amm.reserve_y, amm.reserve_x)

\* set_initial_storage replacing the buffer by the bytes handed in.
set_initial_storage_replaces(amm, bytes) == [amm EXCEPT !.storage = bytes]

set_initial_storage(amm, bytes) ==
    [amm EXCEPT !.storage = [i \in 1..STORAGE_SIZE |->
        IF i <= Min(Len(bytes), STORAGE_SIZE) THEN bytes[i] ELSE amm.storage[i]]]

reset(amm, reserve_x, reserve_y) ==
    [amm EXCEPT !.reserve_x = reserve_x, !.reserve_y = reserve_y,
                !.storage = ZeroStorage, !.current_step = 0]

(***************************************************************************)
(* Integer helpers of the number representation.                           *)
(***************************************************************************)
\* One step of long multiplication: h is <<quotient, remainder>> of
\* a * m / d for the higher digits m of the multiplier; the result is that
\* of a * (16 * m + digit) / d.
MulDivDigit(h, a, digit, d) ==
    <<16 * h[1] + digit * (a \div d) + (16 * h[2] + digit * (a % d)) \div d,
      (16 * h[2] + digit * (a % d)) % d>>

RECURSIVE MulDivRem(_, _, _)
\* <<floor(a * n / d), (a * n) % d>> for a, n >= 0 and 0 < d < 2^26, by long
\* multiplication four bits of n at a time, so that no intermediate leaves
\* 32 bits
MulDivRem(a, n, d) ==
    IF n = 0 THEN <<0, 0>>
    ELSE MulDivDigit(MulDivRem(a, n \div 16, d), a, n % 16, d)

\* floor(a * n / d)
MulDiv(a, n, d) == MulDivRem(a, n, d)[1]

\* v * n / d on an amount: non-finite values stay what they are.
FScale(v, n, d) ==
    IF ~IsFinite(v) THEN (IF n = 0 THEN NaN ELSE v)
    ELSE IF n = 0 THEN 0
    ELSE IF Abs(v) \div d > F64_MAX \div n THEN (IF v > 0 THEN INF ELSE NEG_INF)
    ELSE IF v >= 0 THEN Sat(MulDiv(v, n, d)) ELSE Sat(0 - MulDiv(0 - v, n, d))

RECURSIVE isqrt_search(_, _, _)
isqrt_search(n, lo, hi) ==
    IF lo >= hi THEN lo
    ELSE LET mid == (lo + hi + 1) \div 2
         IN  IF mid <= n \div mid THEN isqrt_search(n, mid, hi)
             ELSE isqrt_search(n, lo, mid - 1)

\* floor(sqrt(n)) for n >= 0
isqrt(n) == IF n <= 0 THEN 0 ELSE isqrt_search(n, 1, Min(n, 46340))

(***************************************************************************)
(* Shape check of sampled quotes (crates/sim/src/curve_checks.rs).  A      *)
(* sampled curve is a sequence of <<input, output>> pairs.                 *)
(***************************************************************************)
\* X_ABS_EPS.max(X_REL_EPS * max(|a|, |b|, 1.0)): every amount of the model
\* is below 1.0, so the relative term is X_REL_EPS * 1.0 = 1e-9, one nano.
X_ABS_EPS == 1
X_EPS == Max(X_ABS_EPS, TICKS_PER_NANO)
\* OUTPUT_ABS_TOL + OUTPUT_REL_TOL * max(|a|, |b|, 1.0) = 1e-9 + 1e-9
ALLOWED_DROP == 2 * TICKS_PER_NANO
\* Slopes are held in units of 1 / SLOPE_SCALE; SLOPE_ABS_TOL and the 1e-6
\* floor of the scale are below that resolution.
SLOPE_SCALE == 10000
SLOPE_REL_TOL_DIV == 100

\* the points that a stable sort by input puts before points[i]
before_by_input(points, i) ==
    {j \in 1..Len(points) :
        points[j][1] < points[i][1] \/ (points[j][1] = points[i][1] /\ j < i)}

\* sort_by(|a, b| a.0.partial_cmp(&b.0)...), a stable sort of finite inputs:
\* the k-th point is the one that k - 1 points come before
sort_by_input(points) ==
    Collect([k \in 1..Len(points) |->
                points[CHOOSE i \in 1..Len(points) :
                          Cardinality(before_by_input(points, i)) = k - 1]])

\* the filter of submission_shape_violation
shape_points(points, min_input) ==
    SelectSeq(points, LAMBDA p : IsFinite(p[1]) /\ IsFinite(p[2])
                                  /\ Gt(p[1], min_input) /\ Ge(p[2], 0))

\* a flaw the properties must catch: the output of the point merged last kept
keep_latest(cleaned, output) ==
    [cleaned EXCEPT ![Len(cleaned)] = <<cleaned[Len(cleaned)][1], output>>]

\* if output > *prev_output { *prev_output = output } on the last point kept
keep_larger(cleaned, output) ==
    IF output > cleaned[Len(cleaned)][2]
    THEN [cleaned EXCEPT ![Len(cleaned)] = <<cleaned[Len(cleaned)][1], output>>]
    ELSE cleaned

RECURSIVE clean_points(_, _, _)
\* the loop over sorted from its i-th point on: a point whose input is within
\* eps of the last one kept is merged into it, keeping the larger output
clean_points(sorted, i, cleaned) ==
    CASE i > Len(sorted) -> cleaned
      [] i <= Len(sorted) /\ cleaned # <<>>
            /\ Abs(sorted[i][1] - cleaned[Len(cleaned)][1]) <= X_EPS ->
            clean_points(sorted, i + 1, keep_larger(cleaned, sorted[i][2]))
      [] OTHER -> clean_points(sorted, i + 1, Append(cleaned, sorted[i]))

monotonicity_violated(cleaned) ==
    \E i \in 1..(Len(cleaned) - 1) :
        /\ cleaned[i + 1][1] > cleaned[i][1]
        /\ cleaned[i + 1][2] + ALLOWED_DROP < cleaned[i][2]

\* (out_b - out_a) / dx in units of 1 / SLOPE_SCALE
curve_slope(a, b) ==
    IF b[2] >= a[2] THEN MulDiv(b[2] - a[2], SLOPE_SCALE, b[1] - a[1])
    ELSE 0 - MulDiv(a[2] - b[2], SLOPE_SCALE, b[1] - a[1])

\* How far the rounding of a quote moves a slope taken over dx: the input is
\* cut to a whole nano before the swap function sees it (one nano of input is
\* worth `steep` of output) and the output comes back in whole nanos.  The
\* source's inputs are at least a million nano, so there this is far below
\* SLOPE_REL_TOL; the model's amounts are a few thousand nano and the
\* comparison of two slopes allows for the rounding of both.
quote_rounding(dx, steep) == MulDiv(TICKS_PER_NANO, SLOPE_SCALE + steep, dx) + 1

\* SLOPE_REL_TOL * slope_scale, and the rounding of the two slopes compared
allowed_rise(slope_scale, dx, prev_dx) ==
    slope_scale \div SLOPE_REL_TOL_DIV
        + quote_rounding(dx, slope_scale) + quote_rounding(prev_dx, slope_scale)

\* slope > prev + allowed_rise
slope_rose(slope, prev, dx, prev_dx) ==
    slope > prev + allowed_rise(Max(Abs(prev), Abs(slope)), dx, prev_dx)

\* the windows of cleaned that the concavity loop does not skip
slope_windows(cleaned) ==
    {i \in 1..(Len(cleaned) - 1) : cleaned[i + 1][1] - cleaned[i][1] > X_ABS_EPS}

\* The concavity loop returns at the first window i whose slope rose above
\* prev_slope, the slope of the last window j before i that was not skipped.
concavity_among(cleaned, windows) ==
    \E i \in windows : \E j \in windows :
        /\ j < i
        /\ \A k \in windows : k <= j \/ k >= i
        /\ slope_rose(curve_slope(cleaned[i], cleaned[i + 1]),
                      curve_slope(cleaned[j], cleaned[j + 1]),
                      cleaned[i + 1][1] - cleaned[i][1],
                      cleaned[j + 1][1] - cleaned[j][1])

concavity_violated(cleaned) == concavity_among(cleaned, slope_windows(cleaned))

shape_violation(cleaned) == monotonicity_violated(cleaned) \/ concavity_violated(cleaned)

submission_shape_violation(points, min_input) ==
    shape_violation(clean_points(sort_by_input(shape_points(points, min_input)), 1, <<>>))

\* TRUE when enforce_submission_monotonic_concave panics
enforce_submission_monotonic_concave(amm_name, points, min_input) ==
    amm_name = "submission" /\ submission_shape_violation(points, min_input)

(***************************************************************************)
(* Random streams.  Pcg64::seed_from_u64 and the generator's step are a    *)
(* fixed function of the seed; the model keeps that with a small linear    *)
(* congruential generator.                                                 *)
(***************************************************************************)
seed_from_u64(seed) == (seed * 5 + 2) % RNG_MOD

\* the generator after one draw; the draw is the new state
rng_next(rng) == (rng * 5 + 1) % RNG_MOD

\* StandardNormal.sample: one of -1, 0, 1
standard_normal(draw) == (draw % 3) - 1

\* Normal::new / LogNormal::new(mu_ln, sigma) of rand_distr for a mean of
\* `mean`: releases that validate the dispersion return Err for a
\* non-finite sigma, older ones accept every sigma that is not negative.
LogNormal_new(mean, sigma) ==
    IF IsNaN(sigma) \/ Lt(sigma, 0) \/ (~IsFinite(sigma) /\ libs = "strict")
    THEN [ok |-> FALSE, mean |-> mean, sigma |-> sigma]
    ELSE [ok |-> TRUE, mean |-> mean, sigma |-> sigma]

\* LogNormal::sample = exp(mu_ln + sigma * z), mu_ln = ln(mean) - sigma^2 / 2.
\* sigma is in hundredths.  An infinite sigma gives exp(-inf + inf * z).
lognormal_sample(dist, z) ==
    IF ~IsFinite(dist.sigma) THEN (IF z < 0 THEN 0 ELSE NaN)
    ELSE IF dist.sigma < 50 THEN dist.mean
    ELSE IF z < 0 THEN FScale(dist.mean, 15, 100)
    ELSE IF z = 0 THEN FScale(dist.mean, 49, 100)
    ELSE FScale(dist.mean, 162, 100)

(***************************************************************************)
(* Arbitrageur (crates/sim/src/arbitrageur.rs).                            *)
(***************************************************************************)
\* MIN_INPUT is 0.001 units in the source; at the model's scale, where a u64
\* holds U64_BITS bits, the threshold is kept at 10 nano.
MIN_INPUT == 10000
GOLDEN_RATIO_NUM == 618
GOLDEN_RATIO_DEN == 1000
GOLDEN_MAX_ITERS == 12
GOLDEN_INPUT_REL_TOL_DIV == 100
BRACKET_MAX_STEPS == 24
BRACKET_GROWTH == 2
\* (u64::MAX as f64 / NANO_SCALE_F64) * 0.999_999
MAX_INPUT_AMOUNT == U64_MAX * TICKS_PER_NANO - (U64_MAX * TICKS_PER_NANO) \div 1000000
\* the 0.01 floor of the mean size and of sigma (in hundredths)
MIN_MEAN_SIZE == 10 * MIN_INPUT
MIN_SIGMA == 1

\* GOLDEN_RATIO_CONJUGATE * d
golden(d) == FScale(d, GOLDEN_RATIO_NUM, GOLDEN_RATIO_DEN)

NoCandidate == [side |-> "None", input_amount |-> 0, expected_profit |-> 0]
ArbCandidate(side, input_amount, expected_profit) ==
    [side |-> side, input_amount |-> input_amount, expected_profit |-> expected_profit]

NoArbResult == [some |-> FALSE, amm_buys_x |-> FALSE, amount_x |-> 0, amount_y |-> 0, edge |-> 0]
ArbResult(amm_buys_x, amount_x, amount_y, edge) ==
    [some |-> TRUE, amm_buys_x |-> amm_buys_x, amount_x |-> amount_x,
     amount_y |-> amount_y, edge |-> edge]

\* Arbitrageur::new; ok is FALSE when LogNormal::new(..).unwrap() panics
Arbitrageur_new(min_arb_profit, retail_mean_size, retail_size_sigma, seed) ==
    Bind(LogNormal_new(FMax(retail_mean_size, MIN_MEAN_SIZE),
                       FMax(retail_size_sigma, MIN_SIGMA)),
         LAMBDA dist :
             [ok |-> dist.ok,
              min_arb_profit |-> FMax(min_arb_profit, 0),
              rng |-> seed_from_u64(seed),
              retail_size_dist |-> dist])

sanitize_score(value) == IF IsFinite(value) THEN value ELSE NEG_INF

\* the quote of one side and the arbitrage profit it implies
arb_quote(amm, side, input) ==
    IF side = "BuyX" THEN quote_buy_x(amm, input) ELSE quote_sell_x(amm, input)

arb_profit(fair_price, side, input, output) ==
    IF side = "BuyX" THEN FSub(FMul(output, fair_price), input)
    ELSE FSub(output, FMul(input, fair_price))

\* the evaluate closure of plan_arb_buy_x / plan_arb_sell_x at one input:
\* the quote is pushed on the sampled curve and the profit is the value
evaluated(fair_price, side, input, output) ==
    [value |-> arb_profit(fair_price, side, input, output), point |-> <<input, output>>]

evaluate(amm, fair_price, side, input) ==
    evaluated(fair_price, side, input, arb_quote(amm, side, input))

\* evaluate at each input of a list
evaluate_all(amm, fair_price, side, inputs) ==
    Collect([k \in 1..Len(inputs) |-> evaluate(amm, fair_price, side, inputs[k])])

\* The locals of bracket_maximum and the quotes sampled so far; returned is
\* TRUE once the function has returned (lo, hi).
BracketState(lo, mid, mid_value, hi, hi_value, sampled, returned) ==
    [lo |-> lo, mid |-> mid, mid_value |-> mid_value, hi |-> hi, hi_value |-> hi_value,
     sampled |-> sampled, returned |-> returned]

\* lo = mid; mid = hi; mid_value = hi_value; hi = next_hi; hi_value = objective(hi)
bracket_advance(b, next_hi, e) ==
    [b EXCEPT !.lo = b.mid, !.mid = b.hi, !.mid_value = b.hi_value, !.hi = next_hi,
              !.hi_value = sanitize_score(e.value), !.sampled = Append(b.sampled, e.point)]

\* the loop body from `lo = mid` on
bracket_grow(amm, fair_price, side, b, next_hi) ==
    IF Le(next_hi, b.hi) THEN [b EXCEPT !.lo = b.mid, !.returned = TRUE]
    ELSE bracket_advance(b, next_hi, evaluate(amm, fair_price, side, next_hi))

\* one pass of the for loop of bracket_maximum
bracket_step(amm, fair_price, side, max_input, b) ==
    IF Le(b.hi_value, b.mid_value) \/ Ge(b.hi, max_input) THEN [b EXCEPT !.returned = TRUE]
    ELSE bracket_grow(amm, fair_price, side, b, FMin(FMul(b.hi, BRACKET_GROWTH), max_input))

RECURSIVE bracket_loop(_, _, _, _, _, _)
\* the for loop of bracket_maximum
bracket_loop(amm, fair_price, side, max_input, b, steps) ==
    IF steps >= BRACKET_MAX_STEPS \/ b.returned THEN b
    ELSE bracket_loop(amm, fair_price, side, max_input,
                      bracket_step(amm, fair_price, side, max_input, b), steps + 1)

\* the result is read as (lo, hi) and the quotes sampled
bracket_maximum(start, max_input_amount, amm, fair_price, side) ==
    Bind(FMax(max_input_amount, MIN_INPUT), LAMBDA max_input :
    Bind(FClamp(start, MIN_INPUT, max_input), LAMBDA mid :
    Bind(FMin(FMul(mid, BRACKET_GROWTH), max_input), LAMBDA hi :
    Bind(evaluate_all(amm, fair_price, side, <<mid, hi>>), LAMBDA e :
        IF Le(sanitize_score(e[1].value), 0) \/ Le(hi, mid)
        THEN BracketState(0, mid, sanitize_score(e[1].value), mid, 0, <<e[1].point>>, TRUE)
        ELSE bracket_loop(amm, fair_price, side, max_input,
                          BracketState(0, mid, sanitize_score(e[1].value),
                                       hi, sanitize_score(e[2].value),
                                       <<e[1].point, e[2].point>>, FALSE),
                          0)))))

\* best_x / best_value after looking at one more point
golden_best(g, x, f) ==
    IF Gt(f, g.best_value) THEN [g EXCEPT !.best_x = x, !.best_value = f] ELSE g

\* g after one end moved to its inner point and the new inner point x was
\* evaluated to e: the right inner point when shrink_left, else the left one
golden_narrow(g, shrink_left, x, e) ==
    golden_best(IF shrink_left
                THEN [g EXCEPT !.left = g.x1, !.x1 = g.x2, !.f1 = g.f2,
                               !.x2 = x, !.f2 = sanitize_score(e.value),
                               !.sampled = Append(g.sampled, e.point)]
                ELSE [g EXCEPT !.right = g.x2, !.x2 = g.x1, !.f2 = g.f1,
                               !.x1 = x, !.f1 = sanitize_score(e.value),
                               !.sampled = Append(g.sampled, e.point)],
                x, sanitize_score(e.value))

\* right - left <= GOLDEN_INPUT_REL_TOL * max(|mid|, MIN_INPUT)
golden_converged(g) ==
    Le(FSub(g.right, g.left),
       FScale(FMax(Abs(FScale(FAdd(g.left, g.right), 1, 2)), MIN_INPUT),
              1, GOLDEN_INPUT_REL_TOL_DIV))

\* the inner point the loop body evaluates: the new x2 if f1 < f2, else the new x1
golden_next_x(g) ==
    IF Lt(g.f1, g.f2) THEN FAdd(g.x1, golden(FSub(g.right, g.x1)))
    ELSE FSub(g.x2, golden(FSub(g.x2, g.left)))

golden_probe(amm, fair_price, side, g, x) ==
    golden_narrow(g, Lt(g.f1, g.f2), x, evaluate(amm, fair_price, side, x))

\* one pass of the for loop of golden_section_max, up to its break
golden_step(amm, fair_price, side, g) ==
    golden_probe(amm, fair_price, side, g, golden_next_x(g))

RECURSIVE golden_loop(_, _, _, _, _)
\* the for loop of golden_section_max over
\* g = [left, right, x1, x2, f1, f2, best_x, best_value, sampled]:
\* the break that ends a pass is taken here before the next one
golden_loop(amm, fair_price, side, g, iters) ==
    IF iters >= GOLDEN_MAX_ITERS \/ (iters > 0 /\ golden_converged(g)) THEN g
    ELSE golden_loop(amm, fair_price, side, golden_step(amm, fair_price, side, g), iters + 1)

\* the state of the search before its loop: e holds evaluate at left, right,
\* x1 and x2, in the order the source calls it
golden_start(left, right, x1, x2, e) ==
    golden_best(
        golden_best(
            golden_best([left |-> left, right |-> right, x1 |-> x1, x2 |-> x2,
                         f1 |-> sanitize_score(e[3].value),
                         f2 |-> sanitize_score(e[4].value),
                         best_x |-> left,
                         best_value |-> sanitize_score(e[1].value),
                         sampled |-> <<e[1].point, e[2].point, e[3].point, e[4].point>>],
                        right, sanitize_score(e[2].value)),
            x1, sanitize_score(e[3].value)),
        x2, sanitize_score(e[4].value))

golden_section_max(lo, hi, amm, fair_price, side) ==
    Bind2(FMax(FMin(lo, hi), 0), FMax(FMax(hi, lo), MIN_INPUT), LAMBDA left, right :
        IF Le(right, left)
        THEN Bind(evaluate_all(amm, fair_price, side, <<right>>), LAMBDA e :
                 [best_x |-> right, best_value |-> sanitize_score(e[1].value),
                  sampled |-> <<e[1].point>>])
        ELSE Bind2(FSub(right, golden(FSub(right, left))),
                   FAdd(left, golden(FSub(right, left))),
                   LAMBDA x1, x2 :
             Bind(golden_loop(amm, fair_price, side,
                              golden_start(left, right, x1, x2,
                                  evaluate_all(amm, fair_price, side, <<left, right, x1, x2>>)),
                              0),
                  LAMBDA g :
                      [best_x |-> g.best_x, best_value |-> g.best_value,
                       sampled |-> g.sampled])))

\* What planning one side yields: the candidate (or NoCandidate), whether
\* the shape check of the sampled quotes panics, and whether a quote
\* reached an overflowing computation.
PlanResult(candidate, violation, overflow) ==
    [candidate |-> candidate, violation |-> violation, overflow |-> overflow]

side_code(side) == IF side = "BuyX" THEN 0 ELSE 1

\* a flaw the properties must catch: the candidate without the profit floor
plan_candidate_no_floor(self, amm, fair_price, side, input) ==
    LET expected_output == arb_quote(amm, side, input)
        profit == arb_profit(fair_price, side, input, expected_output)
    IN  IF Le(expected_output, 0) THEN NoCandidate
        ELSE ArbCandidate(side, input, profit)

\* the candidate of a planned input: the checks that follow the search
plan_candidate(self, amm, fair_price, side, input) ==
    Bind(arb_quote(amm, side, input), LAMBDA expected_output :
    Bind(arb_profit(fair_price, side, input, expected_output), LAMBDA profit :
        IF Le(expected_output, 0) THEN NoCandidate
        ELSE IF Lt(profit, self.min_arb_profit) THEN NoCandidate
        ELSE ArbCandidate(side, input, profit)))

\* plan_arb_buy_x / plan_arb_sell_x share one body up to the side
plan_arb(self, amm, fair_price, start, side) ==
    Bind(bracket_maximum(start, MAX_INPUT_AMOUNT, amm, fair_price, side), LAMBDA b :
    Bind(golden_section_max(b.lo, b.hi, amm, fair_price, side), LAMBDA g :
    Bind(b.sampled \o g.sampled, LAMBDA sampled_curve :
        PlanResult(
            IF Lt(g.best_x, MIN_INPUT) THEN NoCandidate
            ELSE plan_candidate(self, amm, fair_price, side, g.best_x),
            enforce_submission_monotonic_concave(amm.name, sampled_curve, MIN_INPUT),
            \E i \in 1..Len(sampled_curve) :
                quote_overflows(amm, side_code(side), sampled_curve[i][1])))))

plan_arb_buy_x(self, amm, fair_price, start_y) == plan_arb(self, amm, fair_price, start_y, "BuyX")

plan_arb_sell_x(self, amm, fair_price, start_x) == plan_arb(self, amm, fair_price, start_x, "SellX")

\* normalizer_fee_bps: storage bytes 0..2, 0 meaning 30
normalizer_fee_bps(amm) ==
    IF Len(amm.storage) >= 2
    THEN (IF U16LE(amm.storage) = 0 THEN 30 ELSE U16LE(amm.storage))
    ELSE 30

\* sqrt(rx * ry) in nano units
reserve_geomean(amm) ==
    isqrt((amm.reserve_x \div TICKS_PER_NANO) * (amm.reserve_y \div TICKS_PER_NANO))

\* (fair_price * rx * gamma * ry).sqrt() for gamma = gamma_bps / 10000
normalizer_buy_target(amm, fair_price, gamma_bps) ==
    FScale(reserve_geomean(amm) * isqrt(fair_price * gamma_bps * 100), TICKS_PER_NANO, 1000)

\* (ry * rx * gamma / fair_price).sqrt()
normalizer_sell_target(amm, fair_price, gamma_bps) ==
    FScale(reserve_geomean(amm) * isqrt((gamma_bps * 100) \div fair_price), TICKS_PER_NANO, 1000)

plan_normalizer(self, amm, fair_price, side) ==
    Bind2(amm.reserve_x, amm.reserve_y, LAMBDA rx, ry :
    Bind2(10000 - normalizer_fee_bps(amm), IF side = "BuyX" THEN ry ELSE rx,
          LAMBDA gamma_bps, reserve_in :
    Bind(IF side = "BuyX" THEN normalizer_buy_target(amm, fair_price, gamma_bps)
         ELSE normalizer_sell_target(amm, fair_price, gamma_bps),
         LAMBDA target :
    Bind(FClamp(FScale(FSub(target, reserve_in), 10000, gamma_bps),
                MIN_INPUT, MAX_INPUT_AMOUNT),
         LAMBDA input :
        IF gamma_bps <= 0 THEN PlanResult(NoCandidate, FALSE, FALSE)
        ELSE IF ~IsFinite(rx) \/ ~IsFinite(ry) \/ Le(rx, 0) \/ Le(ry, 0)
             THEN PlanResult(NoCandidate, FALSE, FALSE)
        ELSE IF ~IsFinite(target) \/ Le(target, reserve_in)
             THEN PlanResult(NoCandidate, FALSE, FALSE)
        ELSE PlanResult(plan_candidate(self, amm, fair_price, side, input), FALSE,
                        quote_overflows(amm, side_code(side), input))))))

plan_normalizer_buy_x(self, amm, fair_price) == plan_normalizer(self, amm, fair_price, "BuyX")

plan_normalizer_sell_x(self, amm, fair_price) == plan_normalizer(self, amm, fair_price, "SellX")

\* best_candidate preferring the buy side whatever the profits are.
best_candidate_buy_first(buy, sell) ==
    IF buy.side # "None" THEN buy ELSE sell

best_candidate(buy, sell) ==
    IF buy.side # "None" /\ sell.side # "None"
    THEN (IF Gt(sell.expected_profit, buy.expected_profit) THEN sell ELSE buy)
    ELSE IF buy.side # "None" THEN buy
    ELSE IF sell.side # "None" THEN sell
    ELSE NoCandidate

\* execute_candidate: the AMM after the trade and the ArbResult
execute_candidate(amm, fair_price, candidate) ==
    IF candidate.side = "BuyX"
    THEN Bind(execute_buy_x(amm, candidate.input_amount), LAMBDA e :
             [amm |-> e.amm,
              result |-> IF Le(e.ret, 0) THEN NoArbResult
                         ELSE ArbResult(FALSE, e.ret, candidate.input_amount,
                                        FSub(candidate.input_amount, FMul(e.ret, fair_price)))])
    ELSE Bind(execute_sell_x(amm, candidate.input_amount), LAMBDA e :
             [amm |-> e.amm,
              result |-> IF Le(e.ret, 0) THEN NoArbResult
                         ELSE ArbResult(TRUE, candidate.input_amount, e.ret,
                                        FSub(FMul(candidate.input_amount, fair_price), e.ret))])

\* sample_retail_size_y on the generator state after the draw
sample_retail_size_y(self, rng) ==
    FMax(lognormal_sample(self.retail_size_dist, standard_normal(rng)), MIN_INPUT)

\* What execute_arb leaves behind: the arbitrageur, the AMM, the ArbResult
\* (or NoArbResult), both candidates, and the panic that ended it, if any.
ArbOutcome(self, amm, result, buy, sell, panicked) ==
    [arb |-> self, amm |-> amm, result |-> result, buy |-> buy, sell |-> sell,
     panic |-> panicked]

\* the first panic in program order of planning buy, then sell
plan_panic(buy, sell) ==
    IF buy.overflow /\ build = "debug" THEN "arith"
    ELSE IF buy.violation THEN "shape"
    ELSE IF sell.overflow /\ build = "debug" THEN "arith"
    ELSE IF sell.violation THEN "shape"
    ELSE "none"

\* The generator after the search's start size is drawn; the closed form
\* of the normalizer draws nothing.
arb_rng_after(self, amm) ==
    IF amm.name = "normalizer" THEN self.rng ELSE rng_next(self.rng)

execute_arb(self, amm, fair_price) ==
    IF ~IsFinite(fair_price) \/ Le(fair_price, 0)
    THEN ArbOutcome(self, amm, NoArbResult, NoCandidate, NoCandidate, "none")
    ELSE Bind2(amm.name = "normalizer", [self EXCEPT !.rng = arb_rng_after(self, amm)],
               LAMBDA is_norm, after :
         Bind(FMin(sample_retail_size_y(self, after.rng), MAX_INPUT_AMOUNT), LAMBDA start_y :
         Bind2(IF is_norm THEN plan_normalizer_buy_x(self, amm, fair_price)
               ELSE plan_arb_buy_x(self, amm, fair_price, start_y),
               IF is_norm THEN plan_normalizer_sell_x(self, amm, fair_price)
               ELSE plan_arb_sell_x(self, amm, fair_price,
                        FMin(FMax(FDiv(start_y, fair_price), MIN_INPUT), MAX_INPUT_AMOUNT)),
               LAMBDA buy, sell :
         Bind2(plan_panic(buy, sell), best_candidate(buy.candidate, sell.candidate),
               LAMBDA panicked, best :
             IF panicked # "none"
             THEN ArbOutcome(after, amm, NoArbResult, buy.candidate, sell.candidate, panicked)
             ELSE IF best.side = "None"
             THEN ArbOutcome(after, amm, NoArbResult, buy.candidate, sell.candidate, "none")
             ELSE Bind(execute_candidate(amm, fair_price, best), LAMBDA done :
                      ArbOutcome(after, done.amm, done.result,
                                 buy.candidate, sell.candidate, "none"))))))

(***************************************************************************)
(* Order router (crates/sim/src/router.rs).  The split alpha in [0, 1] is  *)
(* held in units of 1 / ALPHA_SCALE.                                       *)
(***************************************************************************)
ALPHA_SCALE == 10000
\* 0.001 units in the source, 10 nano at the model's scale (as MIN_INPUT)
MIN_TRADE_SIZE == 10000
ROUTER_GOLDEN_MAX_ITERS == 14
GOLDEN_ALPHA_TOL_DIV == 1000
\* MIN_INPUT_NANO (0.001 units) and MIN_DIN (a tenth of it) in nano units
MIN_INPUT_NANO == MIN_TRADE_SIZE \div TICKS_PER_NANO
MIN_DIN == MIN_INPUT_NANO \div 10
SLOPE_ROUNDING_DIV == 1000
SLOPE_ROUNDING_ABS == 12

RoutedTrade(is_submission, amm_buys_x, amount_x, amount_y) ==
    [is_submission |-> is_submission, amm_buys_x |-> amm_buys_x,
     amount_x |-> amount_x, amount_y |-> amount_y]

\* QuotePoint; quoted_sub and quoted_norm are not fields of the source: they
\* record whether the leg's amm.quote_* was called to fill out_sub / out_norm
QuotePoint(in_sub, in_norm, out_sub, out_norm, quoted_sub, quoted_norm) ==
    [in_sub |-> in_sub, in_norm |-> in_norm, out_sub |-> out_sub, out_norm |-> out_norm,
     quoted_sub |-> quoted_sub, quoted_norm |-> quoted_norm]

\* a flaw the properties must catch: every leg is quoted, whatever its size
quote_leg_unguarded(side, amm, input) ==
    [out |-> IF side = 0 THEN quote_buy_x(amm, input) ELSE quote_sell_x(amm, input),
     called |-> TRUE]

\* quote_buy_split (side 0) / quote_sell_split (side 1)
\* the quote of one leg: 0 unless the leg is above MIN_TRADE_SIZE; called
\* tells whether amm.quote_* was called
quote_leg(side, amm, input) ==
    IF Gt(input, MIN_TRADE_SIZE)
    THEN [out |-> IF side = 0 THEN quote_buy_x(amm, input) ELSE quote_sell_x(amm, input),
          called |-> TRUE]
    ELSE [out |-> 0, called |-> FALSE]

\* a flaw the properties must catch: the normalizer's leg is the whole order
quote_split_whole_norm(side, total, alpha_in, sub, norm) ==
    Bind(IF alpha_in < 0 THEN 0 ELSE IF alpha_in > ALPHA_SCALE THEN ALPHA_SCALE ELSE alpha_in,
         LAMBDA alpha :
    Bind(Collect([k \in 1..2 |->
                     quote_leg(side, <<sub, norm>>[k],
                               FScale(total, <<alpha, ALPHA_SCALE>>[k], ALPHA_SCALE))]),
         LAMBDA leg :
        QuotePoint(FScale(total, alpha, ALPHA_SCALE), total,
                   leg[1].out, leg[2].out, leg[1].called, leg[2].called)))

quote_split(side, total, alpha_in, sub, norm) ==
    Bind(IF alpha_in < 0 THEN 0 ELSE IF alpha_in > ALPHA_SCALE THEN ALPHA_SCALE ELSE alpha_in,
         LAMBDA alpha :
    Bind(Collect([k \in 1..2 |->
                     quote_leg(side, <<sub, norm>>[k],
                               FScale(total, <<alpha, ALPHA_SCALE - alpha>>[k], ALPHA_SCALE))]),
         LAMBDA leg :
        QuotePoint(FScale(total, alpha, ALPHA_SCALE),
                   FScale(total, ALPHA_SCALE - alpha, ALPHA_SCALE),
                   leg[1].out, leg[2].out, leg[1].called, leg[2].called)))

quote_buy_split(total_y, alpha, sub, norm) == quote_split(0, total_y, alpha, sub, norm)

quote_sell_split(total_x, alpha, sub, norm) == quote_split(1, total_x, alpha, sub, norm)

quote_score(point) ==
    Bind(FAdd(point.out_sub, point.out_norm), LAMBDA total :
        IF IsFinite(total) THEN total ELSE NEG_INF)

best_quote(a, b) == IF Gt(quote_score(b), quote_score(a)) THEN b ELSE a

\* s after one end moved to its inner point and the new inner point x was
\* quoted as q: the right inner point when shrink_left, else the left one
split_narrow(s, shrink_left, x, q) ==
    IF shrink_left
    THEN [s EXCEPT !.left = s.x1, !.x1 = s.x2, !.q1 = s.q2, !.x2 = x, !.q2 = q,
                   !.sampled = Append(s.sampled, q), !.best = best_quote(s.best, q)]
    ELSE [s EXCEPT !.right = s.x2, !.x2 = s.x1, !.q2 = s.q1, !.x1 = x, !.q1 = q,
                   !.sampled = Append(s.sampled, q), !.best = best_quote(s.best, q)]

\* the alpha the loop body quotes: the new x2 if q1 scores below q2, else the new x1
split_next_x(s) ==
    IF Lt(quote_score(s.q1), quote_score(s.q2)) THEN s.x1 + golden(s.right - s.x1)
    ELSE s.x2 - golden(s.x2 - s.left)

split_probe(side, total, sub, norm, s, x) ==
    split_narrow(s, Lt(quote_score(s.q1), quote_score(s.q2)), x,
                 quote_split(side, total, x, sub, norm))

\* one pass of the for loop of maximize_split
split_step(side, total, sub, norm, s) ==
    split_probe(side, total, sub, norm, s, split_next_x(s))

\* the for loop of maximize_split is left: GOLDEN_MAX_ITERS passes done, or
\* the break on right - left <= GOLDEN_ALPHA_TOL
split_done(s, iters) ==
    \/ iters >= ROUTER_GOLDEN_MAX_ITERS
    \/ s.right - s.left <= ALPHA_SCALE \div GOLDEN_ALPHA_TOL_DIV

RECURSIVE split_loop(_, _, _, _, _, _)
\* the for loop of maximize_split over
\* s = [left, right, x1, x2, q1, q2, best, sampled]
split_loop(side, total, sub, norm, s, iters) ==
    IF split_done(s, iters) THEN s
    ELSE split_loop(side, total, sub, norm, split_step(side, total, sub, norm, s), iters + 1)

RECURSIVE split_passes(_, _, _, _, _, _)
\* the states of the for loop of maximize_split at the head of each pass
\* whose body ran, in order
split_passes(side, total, sub, norm, s, iters) ==
    IF split_done(s, iters) THEN <<>>
    ELSE <<s>> \o split_passes(side, total, sub, norm,
                               split_step(side, total, sub, norm, s), iters + 1)

\* the state of the search before its loop: q holds the quotes at alpha 0,
\* 1, x1 and x2, in the order the source asks for them
split_start(x1, x2, q) ==
    [left |-> 0, right |-> ALPHA_SCALE, x1 |-> x1, x2 |-> x2, q1 |-> q[3], q2 |-> q[4],
     best |-> best_quote(best_quote(best_quote(q[1], q[2]), q[3]), q[4]),
     sampled |-> <<q[1], q[2], q[3], q[4]>>]

\* maximize_split over the closure |alpha| quote_split(side, total, alpha, ..)
maximize_split(side, total, sub, norm) ==
    Bind2(ALPHA_SCALE - golden(ALPHA_SCALE), golden(ALPHA_SCALE), LAMBDA x1, x2 :
    Bind(split_loop(side, total, sub, norm,
                    split_start(x1, x2,
                        Collect([k \in 1..4 |->
                                    quote_split(side, total, <<0, ALPHA_SCALE, x1, x2>>[k],
                                                sub, norm)])),
                    0),
         LAMBDA s :
    Bind(quote_split(side, total, (s.left + s.right) \div 2, sub, norm), LAMBDA center :
        [best |-> best_quote(s.best, center), sampled |-> Append(s.sampled, center)])))

\* the points that the order by (input, output) puts before points[i]
before_nano(points, i) ==
    {j \in 1..Len(points) :
        \/ points[j][1] < points[i][1]
        \/ points[j][1] = points[i][1] /\ points[j][2] < points[i][2]
        \/ points[j] = points[i] /\ j < i}

\* sort_by(|a, b| a.0.cmp(&b.0).then_with(|| a.1.cmp(&b.1)))
sort_nano(points) ==
    Collect([k \in 1..Len(points) |->
                points[CHOOSE i \in 1..Len(points) :
                          Cardinality(before_nano(points, i)) = k - 1]])

\* the greatest element of a non-empty set of integers
SetMax(S) == CHOOSE m \in S : \A x \in S : x <= m

\* where the runs of equal inputs of sorted start
run_starts(sorted) ==
    SelectSeq([i \in 1..Len(sorted) |-> i],
              LAMBDA i : i = 1 \/ sorted[i - 1][1] # sorted[i][1])

\* the run of equal inputs that starts at i
run_from(sorted, i) ==
    {j \in i..Len(sorted) : \A k \in i..j : sorted[k][1] = sorted[i][1]}

\* one point for each run of starts: its input and the best output in it
collapse_runs(sorted, starts) ==
    [k \in 1..Len(starts) |->
        <<sorted[starts[k]][1], SetMax({sorted[j][2] : j \in run_from(sorted, starts[k])})>>]

\* collapse duplicate inputs, keeping the best output
collapse_nano(sorted) == collapse_runs(sorted, run_starts(sorted))

RECURSIVE landmarks_of(_, _, _)
\* the loop over collapsed from its i-th point on: keep the points at least
\* MIN_DIN after the last one kept
landmarks_of(collapsed, i, landmarks) ==
    CASE i > Len(collapsed) -> landmarks
      [] i <= Len(collapsed) /\ landmarks # <<>>
            /\ collapsed[i][1] - landmarks[Len(landmarks)][1] < MIN_DIN ->
            landmarks_of(collapsed, i + 1, landmarks)
      [] OTHER -> landmarks_of(collapsed, i + 1, Append(landmarks, collapsed[i]))

\* dout / din of window i, in units of 1 / SLOPE_SCALE
window_slope(landmarks, i) ==
    (saturating_sub(landmarks[i + 1][2], landmarks[i][2]) * SLOPE_SCALE)
        \div (landmarks[i + 1][1] - landmarks[i][1])

\* slope > prev_slope + ref_slope * 1e-3 + 12.0 / din for a finite prev_slope
slope_exceeds(slope, prev_slope, din) ==
    slope > prev_slope + Max(prev_slope, slope) \div SLOPE_ROUNDING_DIV
                       + (SLOPE_ROUNDING_ABS * SLOPE_SCALE) \div din

\* Window i of the loop of is_curve_shape_valid returns false.  prev_slope is
\* INF at the first window and the slope of window i - 1 after it.
window_fails(landmarks, i) ==
    \/ landmarks[i + 1][2] + 1 < landmarks[i][2]
    \/ i > 1 /\ slope_exceeds(window_slope(landmarks, i), window_slope(landmarks, i - 1),
                               landmarks[i + 1][1] - landmarks[i][1])

\* the windows loop of is_curve_shape_valid
landmarks_valid(landmarks) ==
    \A i \in 1..(Len(landmarks) - 1) : ~window_fails(landmarks, i)

\* the filter_map of is_curve_shape_valid: the points kept, in nano units
shape_points_nano(points, max_output_nano) ==
    LET kept == SelectSeq(points, LAMBDA p :
                    /\ IsFinite(p[1]) /\ IsFinite(p[2]) /\ ~Lt(p[1], 0)
                    /\ f64_to_nano(p[1]) >= MIN_INPUT_NANO
                    /\ f64_to_nano(p[2]) # 0
                    /\ f64_to_nano(p[2]) < max_output_nano)
    IN  [i \in 1..Len(kept) |-> <<f64_to_nano(kept[i][1]), f64_to_nano(kept[i][2])>>]

is_curve_shape_valid(points, max_output) ==
    Bind(f64_to_nano(max_output), LAMBDA max_output_nano :
    Bind(sort_nano(shape_points_nano(points, max_output_nano)), LAMBDA sorted :
    Bind(collapse_nano(sorted), LAMBDA collapsed :
    Bind(landmarks_of(collapsed, 1, <<>>), LAMBDA landmarks :
        IF max_output_nano = 0 THEN FALSE
        ELSE IF Len(points) = 0 THEN TRUE
        ELSE IF Len(sorted) < 3 THEN TRUE
        ELSE IF Len(collapsed) < 3 THEN TRUE
        ELSE IF Len(landmarks) < 3 THEN TRUE
        ELSE landmarks_valid(landmarks)))))

\* TRUE when enforce_submission_curve_shape panics
enforce_submission_curve_shape(sub, points, max_output) ==
    sub.name = "submission" /\ ~is_curve_shape_valid(points, max_output)

\* What routing an order leaves behind: both AMMs, the trades made, and the
\* panic that ended it, if any.
\* sampled and best are the SplitSearchResult; executed tells per leg
\* (submission, normalizer) whether amm.execute_* was called and returned
\* what it answered.
RouteOutcome(sub, norm, trades, panicked, search, executed, returned) ==
    [amm_sub |-> sub, amm_norm |-> norm, trades |-> trades, panic |-> panicked,
     sampled |-> search.sampled, best |-> search.best,
     executed |-> executed, returned |-> returned]

\* whether a quote of the split search reached an overflowing computation
split_overflows(side, sampled, sub, norm) ==
    \E i \in 1..Len(sampled) :
        \/ Gt(sampled[i].in_sub, MIN_TRADE_SIZE) /\ quote_overflows(sub, side, sampled[i].in_sub)
        \/ Gt(sampled[i].in_norm, MIN_TRADE_SIZE)
              /\ quote_overflows(norm, side, sampled[i].in_norm)

\* route_buy (side 0) and route_sell (side 1) share one body up to the side
\* one leg of the best split: executed if its input is above MIN_TRADE_SIZE
\* and its quote was positive
execute_leg(side, amm, input, quoted) ==
    IF Gt(input, MIN_TRADE_SIZE) /\ Gt(quoted, 0)
    THEN [called |-> TRUE,
          res |-> IF side = 0 THEN execute_buy_x(amm, input) ELSE execute_sell_x(amm, input)]
    ELSE [called |-> FALSE, res |-> ExecuteResult(amm, 0, FALSE)]

\* trades.push(RoutedTrade { .. }) if the leg's execute returned > 0
leg_trades(side, is_submission, input, output) ==
    IF ~Gt(output, 0) THEN <<>>
    ELSE IF side = 0 THEN <<RoutedTrade(is_submission, FALSE, output, input)>>
    ELSE <<RoutedTrade(is_submission, TRUE, input, output)>>

\* route_buy (side 0) and route_sell (side 1) share one body up to the side
route(side, total, sub, norm) ==
    Bind(maximize_split(side, total, sub, norm), LAMBDA search :
        IF build = "debug" /\ split_overflows(side, search.sampled, sub, norm)
        THEN RouteOutcome(sub, norm, <<>>, "arith", search, <<FALSE, FALSE>>, <<0, 0>>)
        ELSE IF enforce_submission_curve_shape(sub,
                    [i \in 1..Len(search.sampled) |->
                        <<search.sampled[i].in_sub, search.sampled[i].out_sub>>],
                    IF side = 0 THEN sub.reserve_x ELSE sub.reserve_y)
        THEN RouteOutcome(sub, norm, <<>>, "shape", search, <<FALSE, FALSE>>, <<0, 0>>)
        ELSE Bind(Collect([k \in 1..2 |->
                              execute_leg(side, <<sub, norm>>[k],
                                          <<search.best.in_sub, search.best.in_norm>>[k],
                                          <<search.best.out_sub, search.best.out_norm>>[k])]),
                  LAMBDA leg :
                 RouteOutcome(leg[1].res.amm, leg[2].res.amm,
                              leg_trades(side, TRUE, search.best.in_sub, leg[1].res.ret)
                                  \o leg_trades(side, FALSE, search.best.in_norm,
                                                leg[2].res.ret),
                              "none", search, <<leg[1].called, leg[2].called>>,
                              <<leg[1].res.ret, leg[2].res.ret>>)))

route_buy(total_y, sub, norm) == route(0, total_y, sub, norm)

route_sell(total_x, sub, norm) == route(1, total_x, sub, norm)

route_order(order, sub, norm, fair_price) ==
    IF order.is_buy THEN route_buy(order.size, sub, norm)
    ELSE route_sell(FDiv(order.size, fair_price), sub, norm)

(***************************************************************************)
(* Price process (crates/sim/src/price_process.rs) and retail flow         *)
(* (crates/sim/src/retail.rs).  sigma, the arrival rate and the buy        *)
(* probability are in hundredths.                                          *)
(***************************************************************************)
GBMPriceProcess_new(initial_price, sigma, seed) ==
    [current_price |-> initial_price, vol_term |-> sigma, rng |-> seed_from_u64(seed)]

\* current_price *= exp(drift_term + vol_term * z): with no volatility the
\* factor is 1, otherwise a down, flat or up move
GBMPriceProcess_step(self) ==
    Bind(rng_next(self.rng), LAMBDA rng :
    Bind(standard_normal(rng), LAMBDA z :
        [self EXCEPT !.rng = rng,
                      !.current_price =
                          IF IsNaN(self.vol_term) THEN NaN
                          ELSE IF self.vol_term = 0 \/ z = 0 THEN self.current_price
                          ELSE IF (z < 0) # (self.vol_term < 0)
                               THEN FScale(self.current_price, 1, 2)
                          ELSE FMul(self.current_price, 2)]))

MIN_RATE == 1

\* RetailTrader::new; ok is FALSE when LogNormal::new(..).unwrap() panics
RetailTrader_new(arrival_rate, mean_size, size_sigma, buy_prob, seed) ==
    Bind(LogNormal_new(FMax(mean_size, MIN_MEAN_SIZE), FMax(size_sigma, MIN_SIGMA)),
         LAMBDA dist :
             [ok |-> dist.ok, buy_prob |-> buy_prob, rng |-> seed_from_u64(seed),
              poisson |-> FMax(arrival_rate, MIN_RATE), lognormal |-> dist])

\* Poisson::sample as usize
poisson_sample(rate, draw) == IF rate < 50 THEN 0 ELSE draw % (MaxOrders + 1)

RetailOrder(is_buy, size) == [is_buy |-> is_buy, size |-> size]

RECURSIVE draw_orders(_, _, _, _)
\* the map closure of generate_orders, n times
draw_orders(self, rng, n, drawn) ==
    IF n = 0 THEN [retail |-> [self EXCEPT !.rng = rng], orders |-> drawn]
    ELSE Bind(rng_next(rng), LAMBDA r1 :
         Bind(rng_next(r1), LAMBDA r2 :
             draw_orders(self, r2, n - 1,
                 Append(drawn,
                        RetailOrder((r2 * 100) \div RNG_MOD < self.buy_prob,
                                    lognormal_sample(self.lognormal, standard_normal(r1)))))))

generate_orders(self) ==
    Bind(rng_next(self.rng), LAMBDA rng :
        draw_orders(self, rng, poisson_sample(self.poisson, rng), <<>>))

(***************************************************************************)
(* One simulation (crates/sim/src/engine.rs).  A simulation state is the   *)
(* record of run_sim_inner's locals.                                       *)
(***************************************************************************)
SimulationConfig(n_steps, p0, x0, y0, gbm_sigma, rate, mean, sigma, buy_prob, floor, seed, fee, mult) ==
    [n_steps |-> n_steps, initial_price |-> p0,
     initial_x |-> x0, initial_y |-> y0, gbm_sigma |-> gbm_sigma,
     retail_arrival_rate |-> rate, retail_mean_size |-> mean,
     retail_size_sigma |-> sigma, retail_buy_prob |-> buy_prob,
     min_arb_profit |-> floor, seed |-> seed, norm_fee_bps |-> fee,
     norm_liquidity_mult |-> mult]

\* seed.wrapping_add(n)
wrapping_add(seed, n) == (seed + n) % (U64_MAX + 1)

\* no route_order call yet
NoRoute ==
    [is_buy |-> FALSE, sampled |-> <<>>, best |-> <<>>, executed |-> <<FALSE, FALSE>>,
     returned |-> <<0, 0>>]

\* what the last route_order call did: the order's side, the quotes of the
\* split search and the best of them, and per leg (submission, normalizer)
\* whether execute was called and what it returned
RouteRecord(order, o) ==
    [is_buy |-> order.is_buy, sampled |-> o.sampled, best |-> o.best,
     executed |-> o.executed, returned |-> o.returned]

NoArb ==
    [name |-> "", fair_price |-> 0, rng_before |-> 0,
     buy |-> NoCandidate, sell |-> NoCandidate, result |-> NoArbResult]

\* what the last execute_arb call was given and what it gave back
ArbRecord(amm, fair_price, rng_before, o) ==
    [name |-> amm.name, fair_price |-> fair_price, rng_before |-> rng_before,
     buy |-> o.buy, sell |-> o.sell, result |-> o.result]

\* run_simulation_native up to the loop of run_sim_inner: fresh AMMs, the
\* normalizer's fee written to its storage, freshly seeded generators.
\* last_arb and last_trades keep the last execute_arb and route_order call
\* for the properties; the program does not read them.
sim_new(program, normalizer, config) ==
    Bind2(RetailTrader_new(config.retail_arrival_rate, config.retail_mean_size,
                           config.retail_size_sigma, config.retail_buy_prob,
                           wrapping_add(config.seed, 1)),
          Arbitrageur_new(config.min_arb_profit, config.retail_mean_size,
                          config.retail_size_sigma, wrapping_add(config.seed, 2)),
          LAMBDA retail_new, arb_new :
        [amm_sub |-> BpfAmm_new_native(program.swap_fn, program.after_swap_fn,
                                       config.initial_x, config.initial_y, "submission"),
         amm_norm |-> set_initial_storage(
                          BpfAmm_new_native(normalizer.swap_fn, normalizer.after_swap_fn,
                                            FMul(config.initial_x, config.norm_liquidity_mult),
                                            FMul(config.initial_y, config.norm_liquidity_mult),
                                            "normalizer"),
                          U16ToLE(config.norm_fee_bps)),
         price |-> GBMPriceProcess_new(config.initial_price, config.gbm_sigma, config.seed),
         retail |-> retail_new,
         arb |-> arb_new,
         submission_edge |-> 0,
         panic |-> IF retail_new.ok /\ arb_new.ok THEN "none" ELSE "unwrap",
         last_arb |-> NoArb,
         last_trades |-> <<>>,
         last_route |-> NoRoute])

\* the head of the loop body: set_current_step on both AMMs, price.step()
sim_begin_step(s, at_step) ==
    [s EXCEPT !.amm_sub = set_current_step(s.amm_sub, at_step),
              !.amm_norm = set_current_step(s.amm_norm, at_step),
              !.price = GBMPriceProcess_step(s.price)]

\* if let Some(result) = arb.execute_arb(&mut amm_sub, fair_price) { edge += result.edge }
sim_arb_sub(s) ==
    Bind(execute_arb(s.arb, s.amm_sub, s.price.current_price), LAMBDA o :
        [s EXCEPT !.arb = o.arb, !.amm_sub = o.amm, !.panic = o.panic,
                  !.submission_edge = IF o.result.some THEN FAdd(@, o.result.edge) ELSE @,
                  !.last_arb = ArbRecord(s.amm_sub, s.price.current_price, s.arb.rng, o)])

\* a flaw the properties must catch: the normalizer's arbitrage accumulated too
sim_arb_norm_accumulates(s) ==
    Bind(execute_arb(s.arb, s.amm_norm, s.price.current_price), LAMBDA o :
        [s EXCEPT !.arb = o.arb, !.amm_norm = o.amm, !.panic = o.panic,
                  !.submission_edge = IF o.result.some THEN FAdd(@, o.result.edge) ELSE @,
                  !.last_arb = ArbRecord(s.amm_norm, s.price.current_price, s.arb.rng, o)])

\* arb.execute_arb(&mut amm_norm, fair_price)
sim_arb_norm(s) ==
    Bind(execute_arb(s.arb, s.amm_norm, s.price.current_price), LAMBDA o :
        [s EXCEPT !.arb = o.arb, !.amm_norm = o.amm, !.panic = o.panic,
                  !.last_arb = ArbRecord(s.amm_norm, s.price.current_price, s.arb.rng, o)])

\* trade_edge of adding every sign the same way.
trade_edge_unsigned(trade, fair_price) ==
    FSub(trade.amount_y, FMul(trade.amount_x, fair_price))

\* a flaw the properties must catch: the two signs of trade_edge exchanged
trade_edge_swapped(trade, fair_price) ==
    IF trade.amm_buys_x THEN FSub(trade.amount_y, FMul(trade.amount_x, fair_price))
    ELSE FSub(FMul(trade.amount_x, fair_price), trade.amount_y)

\* trade_edge of the routing loop
trade_edge(trade, fair_price) ==
    IF trade.amm_buys_x THEN FSub(FMul(trade.amount_x, fair_price), trade.amount_y)
    ELSE FSub(trade.amount_y, FMul(trade.amount_x, fair_price))

RECURSIVE add_trade_edges(_, _, _)
\* for trade in trades { if trade.is_submission { submission_edge += trade_edge } }
add_trade_edges(edge, trades, fair_price) ==
    IF trades = <<>> THEN edge
    ELSE add_trade_edges(IF Head(trades).is_submission
                         THEN FAdd(edge, trade_edge(Head(trades), fair_price))
                         ELSE edge,
                         Tail(trades), fair_price)

\* the body of the loop over the orders for one order
sim_route(s, order) ==
    Bind(route_order(order, s.amm_sub, s.amm_norm, s.price.current_price), LAMBDA o :
        [s EXCEPT !.amm_sub = o.amm_sub, !.amm_norm = o.amm_norm, !.panic = o.panic,
                  !.submission_edge = add_trade_edges(@, o.trades, s.price.current_price),
                  !.last_trades = o.trades,
                  !.last_route = RouteRecord(order, o)])

RECURSIVE sim_route_all(_, _)
sim_route_all(s, pending) ==
    IF pending = <<>> \/ s.panic # "none" THEN s
    ELSE sim_route_all(sim_route(s, Head(pending)), Tail(pending))

\* one iteration of the loop of run_sim_inner
sim_step(s, at_step) ==
    Bind(sim_arb_sub(sim_begin_step(s, at_step)), LAMBDA s1 :
        IF s1.panic # "none" THEN s1
        ELSE Bind(sim_arb_norm(s1), LAMBDA s2 :
                 IF s2.panic # "none" THEN s2
                 ELSE Bind(generate_orders(s2.retail), LAMBDA g :
                          sim_route_all([s2 EXCEPT !.retail = g.retail], g.orders))))

RECURSIVE sim_loop(_, _, _)
sim_loop(s, at_step, n_steps) ==
    IF at_step >= n_steps \/ s.panic # "none" THEN s
    ELSE sim_loop(sim_step(s, at_step), at_step + 1, n_steps)

SimResult(seed, edge) == [seed |-> seed, submission_edge |-> edge]

\* run_simulation_native as a whole: Ok(SimResult) or the panic that ended it
run_simulation_native(program, normalizer, config) ==
    Bind(sim_loop(sim_new(program, normalizer, config), 0, config.n_steps), LAMBDA s :
        [panic |-> s.panic, result |-> SimResult(config.seed, s.submission_edge)])

(***************************************************************************)
(* SpecAmm: one AMM object under any sequence of its public operations.    *)
(***************************************************************************)
AmmSwapFns ==
    {NormalizerSwap, LinearSwap(3, 3), ConstSwap(0), ConstSwap(5), ConstSwap(U64_MAX)}
AmmAfterSwapFns == {"none", "noop", "count"}
\* reserve_x, reserve_y handed to the constructor and to reset
AmmReserves ==
    {<<5002, 20000>>, <<5001, 5000>>, <<5000, 5001>>, <<20000, F64_MAX>>,
     <<NaN, 5000>>, <<0, 5000>>, <<5000, INF>>}
AmmInputs == {NaN, INF, 0 - 3000, 0, 500, 3000, 7000}
AmmStorageInputs ==
    {<<100, 0>>, [i \in 1..(STORAGE_SIZE + 1) |-> 7]}

\* the variables of the driver and of the batch runner while they are not in use
SimIdle ==
    /\ cfg = <<>> /\ prog = <<>> /\ run = 0 /\ pc = "idle" /\ step = 0
    /\ price = <<>> /\ retail = <<>> /\ arb = <<>> /\ orders = <<>>
    /\ submission_edge = 0 /\ results = <<>>
    /\ last_arb = <<>> /\ last_trades = <<>> /\ last_route = <<>>

BatchIdle ==
    /\ configs = <<>> /\ n_workers = 0 /\ running = {} /\ completed = <<>>
    /\ batch_out = [kind |-> "idle"]

NoCall == [op |-> "new", input |-> 0, ret |-> 0, hook |-> FALSE]

CallRecord(op, input, ret, hook) == [op |-> op, input |-> input, ret |-> ret, hook |-> hook]

InitAmm ==
    /\ \E f \in AmmSwapFns, h \in AmmAfterSwapFns, r \in AmmReserves :
          amm_sub = BpfAmm_new_native(f, h, r[1], r[2], "submission")
    /\ amm_norm = BpfAmm_new_native(NormalizerSwap, "noop", 5000, 5000, "normalizer")
    /\ last = NoCall
    /\ ncalls = 0
    /\ build = "debug"
    /\ libs = "strict"
    /\ panic = "none"
    /\ SimIdle
    /\ BatchIdle

\* A quote: the AMM is left as it is.
AmmQuote(op, side, input, ret) ==
    /\ ncalls' = ncalls + 1
    /\ IF build = "debug" /\ quote_overflows(amm_sub, side, input)
       THEN panic' = "arith" /\ UNCHANGED <<amm_sub, last>>
       ELSE /\ last' = CallRecord(op, input, ret, FALSE)
            /\ UNCHANGED <<amm_sub, panic>>
    /\ UNCHANGED <<amm_norm, build, libs, simvars, batchvars>>

\* An execute: res is the record execute_buy_x / execute_sell_x computes.
AmmExecute(op, side, input, res) ==
    /\ ncalls' = ncalls + 1
    /\ IF build = "debug" /\ quote_overflows(amm_sub, side, input)
       THEN panic' = "arith" /\ UNCHANGED <<amm_sub, last>>
       ELSE /\ amm_sub' = res.amm
            /\ last' = CallRecord(op, input, res.ret, res.hook)
            /\ UNCHANGED panic
    /\ UNCHANGED <<amm_norm, build, libs, simvars, batchvars>>

AmmQuoteBuyX ==
    /\ panic = "none" /\ ncalls < MaxCalls
    /\ \E y \in AmmInputs : AmmQuote("quote_buy_x", 0, y, quote_buy_x(amm_sub, y))

AmmQuoteSellX ==
    /\ panic = "none" /\ ncalls < MaxCalls
    /\ \E x \in AmmInputs : AmmQuote("quote_sell_x", 1, x, quote_sell_x(amm_sub, x))

AmmExecuteBuyX ==
    /\ panic = "none" /\ ncalls < MaxCalls
    /\ \E y \in AmmInputs : AmmExecute("execute_buy_x", 0, y, execute_buy_x(amm_sub, y))

AmmExecuteSellX ==
    /\ panic = "none" /\ ncalls < MaxCalls
    /\ \E x \in AmmInputs : AmmExecute("execute_sell_x", 1, x, execute_sell_x(amm_sub, x))

AmmSetCurrentStep ==
    /\ panic = "none" /\ ncalls < MaxCalls
    /\ amm_sub' = set_current_step(amm_sub, amm_sub.current_step + 1)
    /\ last' = CallRecord("set_current_step", amm_sub.current_step + 1, 0, FALSE)
    /\ ncalls' = ncalls + 1
    /\ UNCHANGED <<amm_norm, build, libs, panic, simvars, batchvars>>

AmmSetInitialStorage ==
    /\ panic = "none" /\ ncalls < MaxCalls
    /\ \E bytes \in AmmStorageInputs :
          /\ amm_sub' = set_initial_storage(amm_sub, bytes)
          /\ last' = CallRecord("set_initial_storage", Len(bytes), 0, FALSE)
    /\ ncalls' = ncalls + 1
    /\ UNCHANGED <<amm_norm, build, libs, panic, simvars, batchvars>>

AmmReset ==
    /\ panic = "none" /\ ncalls < MaxCalls
    /\ \E r \in AmmReserves :
          /\ amm_sub' = reset(amm_sub, r[1], r[2])
          /\ last' = CallRecord("reset", 0, 0, FALSE)
    /\ ncalls' = ncalls + 1
    /\ UNCHANGED <<amm_norm, build, libs, panic, simvars, batchvars>>

NextAmm ==
    \/ AmmQuoteBuyX
    \/ AmmQuoteSellX
    \/ AmmExecuteBuyX
    \/ AmmExecuteSellX
    \/ AmmSetCurrentStep
    \/ AmmSetInitialStorage
    \/ AmmReset

SpecAmm == InitAmm /\ [][NextAmm]_vars

(***************************************************************************)
(* Spec: the simulation driver, one step of run_sim_inner's loop body at a *)
(* time, run Runs times over with the same program and config.             *)
(***************************************************************************)
\* A pricing function with a convex (shape-violating) curve: input^2 / c.
ConvexSwap(c) == [kind |-> "convex", a |-> c, b |-> 0]

Normalizer == [swap_fn |-> NormalizerSwap, after_swap_fn |-> "noop"]

SimPrograms ==
    {[swap_fn |-> StarterSwap, after_swap_fn |-> "noop"],
     [swap_fn |-> NormalizerSwap, after_swap_fn |-> "fee_step"],
     [swap_fn |-> LinearSwap(1, 3), after_swap_fn |-> "none"],
     [swap_fn |-> LinearSwap(3, 3), after_swap_fn |-> "count"],
     [swap_fn |-> ConstSwap(5000), after_swap_fn |-> "count"],
     [swap_fn |-> ConvexSwap(100), after_swap_fn |-> "none"]}

BaseConfig ==
    SimulationConfig(2, 2, 5000000, 5000000, 100, 80, 400000, 120, 50, 0, 0, 30, 1)

SimConfigs ==
    {[BaseConfig EXCEPT !.seed = s] : s \in 0..MaxSeed}
    \cup {[BaseConfig EXCEPT !.min_arb_profit = m] : m \in {0 - 5, NaN, 1500000, 4000000}}
    \cup {[BaseConfig EXCEPT !.initial_x = 1000000, !.gbm_sigma = 0],
          [BaseConfig EXCEPT !.norm_liquidity_mult = 2, !.seed = 1],
          [BaseConfig EXCEPT !.retail_buy_prob = 100],
          [BaseConfig EXCEPT !.norm_fee_bps = 10001],
          [BaseConfig EXCEPT !.retail_size_sigma = INF],
          [BaseConfig EXCEPT !.retail_size_sigma = NaN],
          [BaseConfig EXCEPT !.initial_price = NaN],
          [BaseConfig EXCEPT !.initial_price = 0]}

\* the locals of run_sim_inner as one simulation state
Sim ==
    [amm_sub |-> amm_sub, amm_norm |-> amm_norm, price |-> price, retail |-> retail,
     arb |-> arb, submission_edge |-> submission_edge, panic |-> panic,
     last_arb |-> last_arb, last_trades |-> last_trades, last_route |-> last_route]

SetSim(s) ==
    /\ amm_sub' = s.amm_sub /\ amm_norm' = s.amm_norm
    /\ price' = s.price /\ retail' = s.retail /\ arb' = s.arb
    /\ submission_edge' = s.submission_edge
    /\ panic' = s.panic
    /\ last_arb' = s.last_arb /\ last_trades' = s.last_trades
    /\ last_route' = s.last_route

AfterStep(s, next_pc) == IF s.panic = "none" THEN next_pc ELSE "panicked"

InitSim ==
    /\ build \in {"debug", "release"}
    /\ libs \in {"strict", "lenient"}
    /\ cfg \in SimConfigs
    /\ prog \in SimPrograms
    /\ run = 1
    /\ results = <<>>
    /\ step = 0
    /\ \E s \in {sim_new(prog, Normalizer, cfg)} :
          /\ amm_sub = s.amm_sub /\ amm_norm = s.amm_norm
          /\ price = s.price /\ retail = s.retail /\ arb = s.arb
          /\ submission_edge = s.submission_edge
          /\ panic = s.panic
          /\ last_arb = s.last_arb /\ last_trades = s.last_trades
          /\ last_route = s.last_route
          /\ pc = AfterStep(s, "step")
    /\ orders = <<>>
    /\ last = NoCall
    /\ ncalls = 0
    /\ BatchIdle

\* for step in 0..config.n_steps: set_current_step, price.step()
BeginStep ==
    /\ pc = "step" /\ step < cfg.n_steps
    /\ SetSim(sim_begin_step(Sim, step))
    /\ pc' = "arb_sub"
    /\ UNCHANGED <<last, ncalls, build, libs, cfg, prog, run, step, orders, results,
                   batchvars>>

ArbSubmission ==
    /\ pc = "arb_sub"
    /\ \E s \in {sim_arb_sub(Sim)} : SetSim(s) /\ pc' = AfterStep(s, "arb_norm")
    /\ UNCHANGED <<last, ncalls, build, libs, cfg, prog, run, step, orders, results,
                   batchvars>>

ArbNormalizer ==
    /\ pc = "arb_norm"
    /\ \E s \in {sim_arb_norm(Sim)} : SetSim(s) /\ pc' = AfterStep(s, "retail")
    /\ UNCHANGED <<last, ncalls, build, libs, cfg, prog, run, step, orders, results,
                   batchvars>>

GenerateOrders ==
    /\ pc = "retail"
    /\ \E g \in {generate_orders(retail)} : retail' = g.retail /\ orders' = g.orders
    /\ pc' = "route"
    /\ UNCHANGED <<amm_sub, amm_norm, last, ncalls, build, libs, panic, cfg, prog, run, step,
                   price, arb, submission_edge, results, last_arb, last_trades, last_route,
                   batchvars>>

RouteOrder ==
    /\ pc = "route" /\ orders # <<>>
    /\ \E s \in {sim_route(Sim, Head(orders))} : SetSim(s) /\ pc' = AfterStep(s, "route")
    /\ orders' = Tail(orders)
    /\ UNCHANGED <<last, ncalls, build, libs, cfg, prog, run, step, results, batchvars>>

EndStep ==
    /\ pc = "route" /\ orders = <<>>
    /\ step' = step + 1
    /\ pc' = "step"
    /\ UNCHANGED <<ammvars, cfg, prog, run, price, retail, arb, orders, submission_edge,
                   results, last_arb, last_trades, last_route, batchvars>>

\* Ok(SimResult { seed: config.seed, submission_edge })
Finish ==
    /\ pc = "step" /\ step >= cfg.n_steps
    /\ results' = Append(results, SimResult(cfg.seed, submission_edge))
    /\ pc' = "returned"
    /\ UNCHANGED <<ammvars, cfg, prog, run, step, price, retail, arb, orders,
                   submission_edge, last_arb, last_trades, last_route, batchvars>>

\* the caller runs the same program and config again
RunAgain ==
    /\ pc = "returned" /\ run < Runs
    /\ run' = run + 1
    /\ step' = 0
    /\ \E s \in {sim_new(prog, Normalizer, cfg)} : SetSim(s) /\ pc' = AfterStep(s, "step")
    /\ orders' = <<>>
    /\ UNCHANGED <<last, ncalls, build, libs, cfg, prog, results, batchvars>>

Next ==
    \/ BeginStep
    \/ ArbSubmission
    \/ ArbNormalizer
    \/ GenerateOrders
    \/ RouteOrder
    \/ EndStep
    \/ Finish
    \/ RunAgain

Spec == InitSim /\ [][Next]_vars

(***************************************************************************)
(* SpecArb: one arbitrageur calling execute_arb on one AMM, as the unit    *)
(* tests of crates/sim/src/arbitrageur.rs do.  The AMM is amm_sub; its     *)
(* name decides whether the closed form, the quote search, and the shape   *)
(* check apply.                                                            *)
(***************************************************************************)
ArbAmm(name, swap_fn, after_swap_fn, rx, ry) ==
    [name |-> name, swap_fn |-> swap_fn, after_swap_fn |-> after_swap_fn,
     rx |-> rx, ry |-> ry]

ArbAmms ==
    {ArbAmm("test", LinearSwap(1, 3), "none", 1000000, 5000000),
     ArbAmm("test", LinearSwap(3, 3), "count", 5000000, 5000000),
     ArbAmm("test", ConstSwap(5000), "noop", 5000000, 5000000),
     ArbAmm("test", NormalizerSwap, "noop", 5000000, 5000000),
     ArbAmm("normalizer", NormalizerSwap, "noop", 5000000, 5000000),
     ArbAmm("submission", StarterSwap, "noop", 5000000, 5000000),
     ArbAmm("submission", ConvexSwap(100), "none", 5000000, 5000000)}

\* min_arb_profit as handed to Arbitrageur::new
ArbFloors == {0 - 5, NaN, 700000, 1500000, INF}
ArbPrices == {NaN, 0, 2, 4}
\* seeds of the unit tests
ArbSeeds == {7, 42}

InitArb ==
    /\ build \in {"debug", "release"}
    /\ libs = "strict"
    /\ \E a \in ArbAmms :
          amm_sub = BpfAmm_new_native(a.swap_fn, a.after_swap_fn, a.rx, a.ry, a.name)
    /\ amm_norm = BpfAmm_new_native(NormalizerSwap, "noop", 5000, 5000, "normalizer")
    /\ \E floor \in ArbFloors, seed \in ArbSeeds :
          arb = Arbitrageur_new(floor, 400000, 120, seed)
    /\ last_arb = NoArb
    /\ last = NoCall
    /\ ncalls = 0
    /\ panic = "none"
    /\ cfg = <<>> /\ prog = <<>> /\ run = 0 /\ pc = "idle" /\ step = 0
    /\ price = <<>> /\ retail = <<>> /\ orders = <<>>
    /\ submission_edge = 0 /\ results = <<>> /\ last_trades = <<>> /\ last_route = <<>>
    /\ BatchIdle

\* arb.execute_arb(&mut amm, fair_price)
ArbExecute ==
    /\ ncalls < MaxCalls /\ panic = "none"
    /\ \E fair_price \in ArbPrices :
       \E o \in {execute_arb(arb, amm_sub, fair_price)} :
          /\ amm_sub' = o.amm
          /\ arb' = o.arb
          /\ panic' = o.panic
          /\ last_arb' = ArbRecord(amm_sub, fair_price, arb.rng, o)
    /\ ncalls' = ncalls + 1
    /\ UNCHANGED <<amm_norm, last, build, libs, cfg, prog, run, pc, step, price, retail,
                   orders, submission_edge, results, last_trades, last_route, batchvars>>

NextArb == ArbExecute

SpecArb == InitArb /\ [][NextArb]_vars

(***************************************************************************)
(* SpecBatch: run_batch_native (crates/sim/src/runner.rs).  The pool runs  *)
(* the simulations of configs on n_workers threads; which index a free     *)
(* thread takes next and which running simulation finishes first is the    *)
(* scheduler's choice.  running is the set of indices being simulated and  *)
(* completed lists the finished ones in the order they finished.           *)
(***************************************************************************)
RECURSIVE sum_edges(_)
\* results.iter().map(|r| r.submission_edge).sum(), folded from the left
sum_edges(sim_results) ==
    IF sim_results = <<>> THEN 0
    ELSE FAdd(sum_edges(SubSeq(sim_results, 1, Len(sim_results) - 1)),
              sim_results[Len(sim_results)].submission_edge)

\* BatchResult::from_results
from_results(sim_results) ==
    [kind |-> "ok", results |-> sim_results, total_edge |-> sum_edges(sim_results)]

\* the finished simulation of index i
outcome_of(done, i) ==
    done[CHOOSE k \in 1..Len(done) : done[k].index = i]

\* a flaw the properties must catch: the Vec in the order of completion
collect_in_completion_order(done, n) ==
    [k \in 1..Len(done) |-> done[k].result]

\* par_iter().map(..).collect(): an indexed parallel iterator writes every
\* item into the slot of its index
collect_results(done, n) ==
    [i \in 1..n |-> outcome_of(done, i).result]

\* a flaw the properties must catch: the simulations that succeeded are
\* returned although another one failed
batch_return_partial(done, n) ==
    from_results(collect_in_completion_order(
        SelectSeq(done, LAMBDA d : d.panic = "none"), n))

\* What the caller of run_batch_native gets: a panic of a simulation unwinds
\* through pool.install, otherwise Ok(BatchResult::from_results(results?)).
batch_return(done, n) ==
    IF \E k \in 1..Len(done) : done[k].panic # "none"
    THEN [kind |-> "panic"]
    ELSE from_results(collect_results(done, n))

BatchPrograms ==
    {[swap_fn |-> StarterSwap, after_swap_fn |-> "noop"],
     [swap_fn |-> ConvexSwap(100), after_swap_fn |-> "none"]}

\* the config lists handed to run_batch_native
BatchConfigs ==
    {<<>>,
     <<[BaseConfig EXCEPT !.seed = 2], BaseConfig, [BaseConfig EXCEPT !.seed = 1]>>,
     <<BaseConfig, [BaseConfig EXCEPT !.norm_fee_bps = 10001]>>,
     <<[BaseConfig EXCEPT !.retail_size_sigma = INF], [BaseConfig EXCEPT !.seed = 1]>>,
     <<[BaseConfig EXCEPT !.initial_price = NaN], BaseConfig>>}

started == running \cup {completed[k].index : k \in 1..Len(completed)}

InitBatch ==
    /\ build \in {"debug", "release"}
    /\ libs \in {"strict", "lenient"}
    /\ prog \in BatchPrograms
    /\ configs \in BatchConfigs
    /\ n_workers \in 1..MaxWorkers
    /\ running = {}
    /\ completed = <<>>
    /\ batch_out = [kind |-> "running"]
    /\ amm_sub = BpfAmm_new_native(prog.swap_fn, prog.after_swap_fn, 5000, 5000, "submission")
    /\ amm_norm = BpfAmm_new_native(NormalizerSwap, "noop", 5000, 5000, "normalizer")
    /\ last = NoCall
    /\ ncalls = 0
    /\ panic = "none"
    /\ cfg = <<>> /\ run = 0 /\ pc = "idle" /\ step = 0
    /\ price = <<>> /\ retail = <<>> /\ arb = <<>> /\ orders = <<>>
    /\ submission_edge = 0 /\ results = <<>>
    /\ last_arb = <<>> /\ last_trades = <<>> /\ last_route = <<>>

\* a free thread of the pool takes a config that no thread has taken
BatchTake ==
    /\ batch_out.kind = "running"
    /\ Cardinality(running) < n_workers
    /\ \E i \in (1..Len(configs)) \ started : running' = running \cup {i}
    /\ UNCHANGED <<ammvars, simvars, configs, n_workers, completed, batch_out>>

\* engine::run_simulation_native on the thread's config comes back
BatchFinish ==
    /\ batch_out.kind = "running"
    /\ \E i \in running :
       \E o \in {run_simulation_native(prog, Normalizer, configs[i])} :
          /\ running' = running \ {i}
          /\ completed' = Append(completed,
                                 [index |-> i, panic |-> o.panic, result |-> o.result])
    /\ UNCHANGED <<ammvars, simvars, configs, n_workers, batch_out>>

\* pool.install returns (or unwinds) once no simulation is running and
\* either every config is done or one of them panicked
BatchReturn ==
    /\ batch_out.kind = "running"
    /\ running = {}
    /\ \/ Len(completed) = Len(configs)
       \/ \E k \in 1..Len(completed) : completed[k].panic # "none"
    /\ batch_out' = batch_return(completed, Len(configs))
    /\ UNCHANGED <<ammvars, simvars, configs, n_workers, running, completed>>

NextBatch ==
    \/ BatchTake
    \/ BatchFinish
    \/ BatchReturn

SpecBatch == InitBatch /\ [][NextBatch]_vars

(***************************************************************************)
(* SpecRouter: one route_order call on a pair of constant-product AMMs     *)
(* with a fee, as run_router_once of the router's tests sets it up, next   *)
(* to the brute-force optimum over a grid of split fractions the tests     *)
(* compare it with.  The AMMs are named "sub" and "norm", so the shape     *)
(* check of the router does not apply.                                     *)
(***************************************************************************)
\* the grid of brute_force_best_output: alpha = i / BRUTE_FORCE_STEPS.  The
\* tests' grid has 4000 steps; the model's grid is every hundredth point of
\* it, so its optimum is at most the optimum of the tests' grid.
BRUTE_FORCE_STEPS == 40

\* cp_fee_swap(data, fee_numerator, 1_000) of the router's tests, which is
\* the starter's compute_swap with another fee
CpFeeSwap(fee_numerator) == [kind |-> "starter", a |-> fee_numerator, b |-> 1000]

\* curve_set of the tests: normalizer_swap, zero_fee_swap, low_fee_swap,
\* starter_fee_swap, high_fee_swap
RouterCurves ==
    {NormalizerSwap, CpFeeSwap(1000), CpFeeSwap(999), CpFeeSwap(995), CpFeeSwap(50)}

\* reserves (x, y) of an AMM: two and five hundred times MIN_TRADE_SIZE
RouterReserves == {<<20000, 20000>>, <<1000000, 4000000>>, <<5000000, 5000000>>}

RouterOrders == {RetailOrder(is_buy, size) : is_buy \in BOOLEAN, size \in {25000, 400000}}

\* total_output_from_trades
total_output_from_trades(order, trades) ==
    IF trades = <<>> THEN 0
    ELSE IF Len(trades) = 1
    THEN (IF order.is_buy THEN trades[1].amount_x ELSE trades[1].amount_y)
    ELSE (IF order.is_buy THEN FAdd(trades[1].amount_x, trades[2].amount_x)
          ELSE FAdd(trades[1].amount_y, trades[2].amount_y))

\* quote_total_output
quote_total_output(order, fair_price, alpha, sub, norm) ==
    Bind(IF order.is_buy THEN quote_split(0, order.size, alpha, sub, norm)
         ELSE quote_split(1, FDiv(order.size, fair_price), alpha, sub, norm),
         LAMBDA q : FAdd(q.out_sub, q.out_norm))

\* brute_force_best_output: the largest quote_total_output over the grid
brute_force_best_output(order, fair_price, sub, norm) ==
    SetMax({0} \cup {quote_total_output(order, fair_price,
                                        (i * ALPHA_SCALE) \div BRUTE_FORCE_STEPS, sub, norm) :
                        i \in 0..BRUTE_FORCE_STEPS})

InitRouter ==
    /\ build = "debug"
    /\ libs = "strict"
    /\ \E f \in RouterCurves, r \in RouterReserves :
          amm_sub = BpfAmm_new_native(f, "none", r[1], r[2], "sub")
    /\ \E f \in RouterCurves, r \in RouterReserves :
          amm_norm = BpfAmm_new_native(f, "none", r[1], r[2], "norm")
    /\ \E order \in RouterOrders : orders = <<order>>
    /\ price = [current_price |-> 2]
    /\ pc = "order"
    /\ last = NoCall
    /\ ncalls = 0
    /\ panic = "none"
    /\ cfg = <<>> /\ prog = <<>> /\ run = 0 /\ step = 0
    /\ retail = <<>> /\ arb = <<>>
    /\ submission_edge = 0 /\ results = <<>>
    /\ last_arb = <<>> /\ last_trades = <<>> /\ last_route = NoRoute
    /\ BatchIdle

\* router.route_order(order, &mut amm_sub, &mut amm_norm, fair_price)
RouterRoute ==
    /\ pc = "order"
    /\ \E o \in {route_order(Head(orders), amm_sub, amm_norm, price.current_price)} :
          /\ amm_sub' = o.amm_sub /\ amm_norm' = o.amm_norm
          /\ panic' = o.panic
          /\ last_trades' = o.trades
          /\ last_route' = RouteRecord(Head(orders), o)
    /\ pc' = "routed"
    /\ UNCHANGED <<last, ncalls, build, libs, cfg, prog, run, step, price, retail, arb,
                   orders, submission_edge, results, last_arb, batchvars>>

NextRouter == RouterRoute

SpecRouter == InitRouter /\ [][NextRouter]_vars

(***************************************************************************)
(* The AMM object over the sandboxed backend: the calls of SpecAmm on an   *)
(* AMM built by BpfAmm::new from one of the programs below.                *)
(***************************************************************************)
\* what a program does with a quote frame
BpfSwapScripts ==
    {<<VmStep("work", 100, 0), VmStep("sol_set_return_data", LinearSwap(3, 3), 8)>>,
     <<VmStep("sol_log_", 0, 0), VmStep("sol_set_return_data", NormalizerSwap, 8)>>,
     <<VmStep("work", 100, 0)>>,
     <<VmStep("sol_set_return_data", LinearSwap(3, 3), 8), VmStep("abort", 0, 0)>>,
     <<VmStep("sol_set_return_data", LinearSwap(3, 3), 8), VmStep("trap", 0, 0)>>,
     <<VmStep("sol_set_return_data", LinearSwap(3, 3), 8), VmStep("work", COMPUTE_BUDGET, 0)>>,
     <<VmStep("sol_set_return_data", LinearSwap(3, 3), 9)>>}

\* what a program does with an after-trade frame
BpfAfterSwapScripts ==
    {<<>>,
     <<VmStep("sol_set_storage", "count", STORAGE_SIZE)>>,
     <<VmStep("sol_set_storage", "count", STORAGE_SIZE), VmStep("abort", 0, 0)>>,
     <<VmStep("sol_set_storage", "count", STORAGE_SIZE), VmStep("trap", 0, 0)>>,
     <<VmStep("sol_set_storage", "count", STORAGE_SIZE), VmStep("work", COMPUTE_BUDGET, 0)>>,
     <<VmStep("sol_set_storage", "count", STORAGE_SIZE + 1)>>}

\* every quote behaviour with a storage-counting hook, and every
\* after-trade behaviour behind a quote that succeeds
BpfPrograms ==
    {BpfProgram(on_swap, <<VmStep("sol_set_storage", "count", STORAGE_SIZE)>>) :
        on_swap \in BpfSwapScripts}
    \cup {BpfProgram(<<VmStep("work", 100, 0),
                       VmStep("sol_set_return_data", LinearSwap(3, 3), 8)>>, on_after_swap) :
             on_after_swap \in BpfAfterSwapScripts}

BpfReserves == {<<5002, 20000>>, <<20000, 5002>>}

InitBpf ==
    /\ \E program \in BpfPrograms, meter_disabled \in BOOLEAN, r \in BpfReserves :
          amm_sub = BpfAmm_new(program, meter_disabled, r[1], r[2], "submission")
    /\ amm_norm = BpfAmm_new_native(NormalizerSwap, "noop", 5000, 5000, "normalizer")
    /\ last = NoCall
    /\ ncalls = 0
    /\ build = "debug"
    /\ libs = "strict"
    /\ panic = "none"
    /\ SimIdle
    /\ BatchIdle

SpecBpf == InitBpf /\ [][NextAmm]_vars

(***************************************************************************)
(* The fixed-point conversion on its own (crates/shared/src/nano.rs).      *)
(***************************************************************************)
\* a call of a function on its own leaves the objects alone
CodecUnchanged ==
    UNCHANGED <<amm_sub, amm_norm, ncalls, build, libs, panic, simvars, batchvars>>

NanoInputs ==
    {NaN, INF, NEG_INF, F64_MAX, 0 - F64_MAX,
     U64_MAX * TICKS_PER_NANO - 1, U64_MAX * TICKS_PER_NANO, U64_MAX * TICKS_PER_NANO + 1,
     (U64_MAX + 1) * TICKS_PER_NANO}
    \cup {k * 250 : k \in (0 - 20)..40}

InitNano ==
    /\ \E value \in NanoInputs : last = CallRecord("args", 0, value, FALSE)
    /\ amm_sub = <<>> /\ amm_norm = <<>>
    /\ ncalls = 0 /\ build = "debug" /\ libs = "strict" /\ panic = "none"
    /\ SimIdle
    /\ BatchIdle

F64ToNano ==
    /\ last.op = "args"
    /\ last' = CallRecord("f64_to_nano", last.ret, f64_to_nano(last.ret), FALSE)
    /\ CodecUnchanged

NanoToF64 ==
    /\ last.op = "f64_to_nano"
    /\ last' = CallRecord("nano_to_f64", last.ret, nano_to_f64(last.ret), FALSE)
    /\ CodecUnchanged

NextNano == F64ToNano \/ NanoToF64

SpecNano == InitNano /\ [][NextNano]_vars

(***************************************************************************)
(* The reference pricing function on its own: normalizer::compute_swap on  *)
(* frames of fixed reserves and fee, quoted input after input as the tests *)
(* and the validator of the command line do.                               *)
(***************************************************************************)
MaxSwapInput == 24
SwapInputs == 0..MaxSwapInput
SwapReserves == {<<100, 10000>>, <<10000, 100>>, <<5000, 5000>>, <<1, U64_MAX>>}
\* fee_bps in storage bytes 0..2; 0 stands for 30
SwapFees == {0, 5000, 10000, 20000}
ConcavityDeltas == {1, 2, 7}

\* exec.execute(side, input, rx, ry, &storage) on the normalizer, the
\* storage holding the fee; p is <<side, rx, ry, storage>>
swap_frame(p, input) == encode_swap_instruction(p[1], input, p[2], p[3], p[4])

swap_quote(p, input) == compute_swap(swap_frame(p, input))

InitSwap ==
    /\ \E side \in {0, 1}, r \in SwapReserves, fee_bps \in SwapFees :
          last = CallRecord("args", <<side, r[1], r[2], storage_frame(U16ToLE(fee_bps))>>,
                            0, FALSE)
    /\ build \in {"debug", "release"}
    /\ amm_sub = <<>> /\ amm_norm = <<>>
    /\ ncalls = 0 /\ libs = "strict" /\ panic = "none"
    /\ SimIdle
    /\ BatchIdle

\* the fixed <<side, rx, ry, storage>> of this behaviour
SwapParams == SubSeq(last.input, 1, 4)

SwapUnchanged ==
    UNCHANGED <<amm_sub, amm_norm, ncalls, build, libs, simvars, batchvars>>

\* one quote: input holds <<side, rx, ry, storage, input_amount>>
ComputeSwap ==
    /\ panic = "none"
    /\ \E input \in SwapInputs :
          IF build = "debug" /\ compute_swap_overflows(swap_frame(SwapParams, input))
          THEN panic' = "arith" /\ UNCHANGED last
          ELSE /\ last' = CallRecord("compute_swap", SwapParams \o <<input>>,
                                     swap_quote(SwapParams, input), FALSE)
               /\ UNCHANGED panic
    /\ SwapUnchanged

\* The concavity check of the validator at one size: three quotes a fixed
\* step apart; input holds <<side, rx, ry, storage, in_0, delta>> and the
\* result is the middle output, the outer two kept in hook.
ConcavityProbe ==
    /\ panic = "none"
    /\ last.op = "args"
    /\ \E in_0 \in SwapInputs, delta \in ConcavityDeltas :
          IF build = "debug" /\ compute_swap_overflows(swap_frame(SwapParams, in_0))
          THEN panic' = "arith" /\ UNCHANGED last
          ELSE /\ last' = CallRecord("concavity", SwapParams \o <<in_0, delta>>,
                                     swap_quote(SwapParams, in_0 + delta),
                                     <<swap_quote(SwapParams, in_0),
                                       swap_quote(SwapParams, in_0 + 2 * delta)>>)
               /\ UNCHANGED panic
    /\ SwapUnchanged

NextSwap == ComputeSwap \/ ConcavityProbe

SpecSwap == InitSwap /\ [][NextSwap]_vars

(***************************************************************************)
(* The shape check on its own (crates/sim/src/curve_checks.rs): called     *)
(* with an AMM name and a list of (input, output) samples.                 *)
(***************************************************************************)
MaxSamples == 3
ShapeNames == {"submission", "normalizer"}
\* a non-finite input, an input at the minimum, inputs within eps of one
\* another, equal inputs with different outputs, and outputs that fall or
\* rise steeply
ShapePoints ==
    {<<NaN, 5000>>, <<MIN_INPUT, 5000>>, <<20000, 10000>>, <<20500, 12000>>,
     <<21000, 3000>>, <<30000, 9000>>, <<30000, 15000>>, <<40000, 18000>>,
     <<40000, 40000>>}

InitShape ==
    /\ \E amm_name \in ShapeNames, n \in 0..MaxSamples :
          \E points \in [1..n -> ShapePoints] :
              last = CallRecord("args", <<amm_name, points>>, FALSE, FALSE)
    /\ amm_sub = <<>> /\ amm_norm = <<>>
    /\ ncalls = 0 /\ build = "debug" /\ libs = "strict" /\ panic = "none"
    /\ SimIdle
    /\ BatchIdle

\* enforce_submission_monotonic_concave(amm_name, points, MIN_INPUT, context):
\* the result recorded is whether it panicked
EnforceShape ==
    /\ last.op = "args"
    /\ \E violated \in {enforce_submission_monotonic_concave(last.input[1], last.input[2],
                                                             MIN_INPUT)} :
          /\ last' = CallRecord("enforce_submission_monotonic_concave", last.input,
                                violated, FALSE)
          /\ panic' = IF violated THEN "shape" ELSE "none"
    /\ UNCHANGED <<amm_sub, amm_norm, ncalls, build, libs, simvars, batchvars>>

NextShape == EnforceShape

SpecShape == InitShape /\ [][NextShape]_vars

(***************************************************************************)
(* normalizer::compute_swap over the whole range of its arguments: the     *)
(* reserves, the fee and the input from the ends of their ranges and       *)
(* between.                                                                *)
(***************************************************************************)
ProductReserves == {0, 1, 2, 100, 5000, U64_MAX - 1, U64_MAX}

\* fee_bps in storage bytes 0..2; 0 stands for 30
ProductFees == {0, 1, 30, 5000, 9999, 10000, 10001}

ProductInputs == {0, 1, 2, 3, 24, 100, 5000, U64_MAX - 1, U64_MAX}

InitProduct ==
    /\ \E side \in {0, 1}, rx \in ProductReserves, ry \in ProductReserves,
          fee_bps \in ProductFees :
          last = CallRecord("args", <<side, rx, ry, storage_frame(U16ToLE(fee_bps))>>,
                            0, FALSE)
    /\ build = "release"
    /\ amm_sub = <<>> /\ amm_norm = <<>>
    /\ ncalls = 0 /\ libs = "strict" /\ panic = "none"
    /\ SimIdle
    /\ BatchIdle

\* one quote: input holds <<side, rx, ry, storage, input_amount>>
ComputeProduct ==
    /\ last.op = "args"
    /\ \E input \in ProductInputs :
          last' = CallRecord("compute_swap", last.input \o <<input>>,
                             swap_quote(last.input, input), FALSE)
    /\ CodecUnchanged

NextProduct == ComputeProduct

SpecProduct == InitProduct /\ [][NextProduct]_vars

(***************************************************************************)
(* The AMM object with a hook that records what it is handed: the calls of *)
(* SpecAmm on an AMM of either backend whose after-trade code copies the   *)
(* head of its frame to the storage and counts its invocations in the byte *)
(* after it.                                                               *)
(***************************************************************************)
HookSwapFns == {NormalizerSwap, LinearSwap(3, 3), ConstSwap(5)}

HookReserves == {<<5002, 20000>>, <<20000, 5002>>, <<5001, 5000>>}

HookAmms ==
    {BpfAmm_new_native(f, "record", r[1], r[2], "submission") :
        f \in HookSwapFns, r \in HookReserves}
    \cup {BpfAmm_new(BpfProgram(<<VmStep("sol_set_return_data", f, 8)>>,
                                <<VmStep("sol_set_storage", "record", STORAGE_SIZE)>>),
                     FALSE, r[1], r[2], "submission") :
             f \in HookSwapFns, r \in HookReserves}

InitHook ==
    /\ amm_sub \in HookAmms
    /\ amm_norm = BpfAmm_new_native(NormalizerSwap, "noop", 5000, 5000, "normalizer")
    /\ last = NoCall
    /\ ncalls = 0
    /\ build = "debug"
    /\ libs = "strict"
    /\ panic = "none"
    /\ SimIdle
    /\ BatchIdle

SpecHook == InitHook /\ [][NextAmm]_vars

(***************************************************************************)
(* The arbitrageur's search on its own: bracket_maximum, then               *)
(* golden_section_max on the bracket, over the quote of one side of one    *)
(* AMM, as plan_arb_buy_x / plan_arb_sell_x run them.                      *)
(***************************************************************************)
SearchCurves ==
    {NormalizerSwap, StarterSwap, LinearSwap(1, 3), LinearSwap(3, 3), ConstSwap(5000),
     ConvexSwap(100)}

SearchReserves == {<<5000000, 5000000>>, <<1000000, 5000000>>, <<20000, 8000000>>}

SearchPrices == {NaN, 0, 1, 2, 4}

\* start sizes: the floor, sizes between, and one above MAX_INPUT_AMOUNT
SearchStarts == {MIN_INPUT, 25000, 400000, 3000000, 2 * MAX_INPUT_AMOUNT}

InitSearch ==
    /\ \E f \in SearchCurves, r \in SearchReserves, fair_price \in SearchPrices,
          start \in SearchStarts, side \in {"BuyX", "SellX"} :
          last = CallRecord("args",
                            <<BpfAmm_new_native(f, "none", r[1], r[2], "test"),
                              fair_price, side, start>>,
                            <<>>, FALSE)
    /\ amm_sub = <<>> /\ amm_norm = <<>>
    /\ ncalls = 0 /\ build = "release" /\ libs = "strict" /\ panic = "none"
    /\ SimIdle
    /\ BatchIdle

\* let (lo, hi) = bracket_maximum(start, MAX_INPUT_AMOUNT, objective);
\* let (best_x, best_value) = golden_section_max(lo, hi, objective);
\* ret is <<the bracket, the result of the golden section>>
SearchMaximum ==
    /\ last.op = "args"
    /\ \E b \in {bracket_maximum(last.input[4], MAX_INPUT_AMOUNT, last.input[1],
                                 last.input[2], last.input[3])} :
          last' = CallRecord("search", last.input,
                             <<b, golden_section_max(b.lo, b.hi, last.input[1],
                                                     last.input[2], last.input[3])>>,
                             FALSE)
    /\ CodecUnchanged

NextSearch == SearchMaximum

SpecSearch == InitSearch /\ [][NextSearch]_vars

(***************************************************************************)
(* The price process and the retail trader on their own: constructed from  *)
(* hyperparameters in and out of their domain, then sampled.               *)
(***************************************************************************)
Sigmas == {0 - 100, 0 - 1, 0, 1, 100, NaN}
ArrivalRates == {0 - 80, 0, 1, 80, NaN}

InitConstruct ==
    /\ \E sigma \in Sigmas, rate \in ArrivalRates, seed \in 0..MaxSeed :
          last = CallRecord("args", <<sigma, rate, seed>>, 0, FALSE)
    /\ amm_sub = <<>> /\ amm_norm = <<>>
    /\ ncalls = 0 /\ build = "debug" /\ libs = "strict" /\ panic = "none"
    /\ SimIdle
    /\ BatchIdle

ConstructUnchanged ==
    UNCHANGED <<amm_sub, amm_norm, last, build, libs, panic, cfg, prog, run, pc, step, arb,
                submission_edge, results, last_arb, last_trades, last_route, batchvars>>

\* GBMPriceProcess::new(initial_price, mu, sigma, dt, seed)
PriceNew ==
    /\ price = <<>>
    /\ price' = GBMPriceProcess_new(BaseConfig.initial_price, last.input[1], last.input[3])
    /\ UNCHANGED <<retail, orders, ncalls>>
    /\ ConstructUnchanged

\* RetailTrader::new(arrival_rate, mean_size, size_sigma, buy_prob, seed + 1)
RetailNew ==
    /\ retail = <<>>
    /\ retail' = RetailTrader_new(last.input[2], BaseConfig.retail_mean_size,
                                  BaseConfig.retail_size_sigma, BaseConfig.retail_buy_prob,
                                  wrapping_add(last.input[3], 1))
    /\ UNCHANGED <<price, orders, ncalls>>
    /\ ConstructUnchanged

\* price.step()
PriceStep ==
    /\ price # <<>> /\ ncalls < MaxCalls
    /\ price' = GBMPriceProcess_step(price)
    /\ ncalls' = ncalls + 1
    /\ UNCHANGED <<retail, orders>>
    /\ ConstructUnchanged

\* retail.generate_orders()
RetailGenerate ==
    /\ retail # <<>> /\ ncalls < MaxCalls
    /\ \E o \in {generate_orders(retail)} : retail' = o.retail /\ orders' = o.orders
    /\ ncalls' = ncalls + 1
    /\ UNCHANGED price
    /\ ConstructUnchanged

NextConstruct == PriceNew \/ RetailNew \/ PriceStep \/ RetailGenerate

SpecConstruct == InitConstruct /\ [][NextConstruct]_vars

(***************************************************************************)
(* Hyperparameter variance (crates/shared/src/config.rs).  Here gbm_sigma  *)
(* is in units of 1e-5 and the arrival rate, the mean size and the          *)
(* liquidity multiplier in units of 1e-2; every generator draw is one of   *)
(* RNG_MOD equally spaced points of [0, 1).                                *)
(***************************************************************************)
MaxConfigs == 16

HyperparameterVariance(sigma_min, sigma_max, rate_min, rate_max, size_min, size_max, fee_min, fee_max, mult_min, mult_max) ==
    [gbm_sigma_min |-> sigma_min, gbm_sigma_max |-> sigma_max,
     retail_arrival_rate_min |-> rate_min, retail_arrival_rate_max |-> rate_max,
     retail_mean_size_min |-> size_min, retail_mean_size_max |-> size_max,
     norm_fee_bps_min |-> fee_min, norm_fee_bps_max |-> fee_max,
     norm_liquidity_mult_min |-> mult_min, norm_liquidity_mult_max |-> mult_max]

\* impl Default for HyperparameterVariance
HyperparameterVariance_default ==
    HyperparameterVariance(50, 200, 60, 100, 1900, 2100, 10, 100, 50, 200)

\* rng.gen_range(low..high) on f64: low + (high - low) * u, u in [0, 1)
gen_range(low, high, draw) == low + ((high - low) * draw) \div RNG_MOD

\* rng.gen_range(low..=high) on u16: uniform over the high - low + 1 values
gen_range_inclusive(low, high, draw) == low + ((high - low + 1) * draw) \div RNG_MOD

\* HyperparameterVariance::apply: five draws of one generator seeded with
\* the seed, in this order; the fields of base it replaces
HyperparameterVariance_apply(self, base, seed) ==
    Bind(rng_next(seed_from_u64(seed)), LAMBDA r1 :
    Bind(rng_next(r1), LAMBDA r2 :
    Bind(rng_next(r2), LAMBDA r3 :
    Bind(rng_next(r3), LAMBDA r4 :
    Bind(rng_next(r4), LAMBDA r5 :
        [base EXCEPT
            !.gbm_sigma = gen_range(self.gbm_sigma_min, self.gbm_sigma_max, r1),
            !.retail_arrival_rate =
                gen_range(self.retail_arrival_rate_min, self.retail_arrival_rate_max, r2),
            !.retail_mean_size =
                gen_range(self.retail_mean_size_min, self.retail_mean_size_max, r3),
            !.norm_fee_bps =
                gen_range_inclusive(self.norm_fee_bps_min, self.norm_fee_bps_max, r4),
            !.norm_liquidity_mult =
                gen_range(self.norm_liquidity_mult_min, self.norm_liquidity_mult_max, r5),
            !.seed = seed])))))

\* HyperparameterVariance::generate_configs: (0..n).map(|i| self.apply(&base, i))
generate_configs(self, base, n) ==
    [i \in 1..n |-> HyperparameterVariance_apply(self, base, i - 1)]

\* the variances generate_configs is run on: the default, one with every
\* range a single point, one with a narrower fee range and one with wider
\* ranges
Variances ==
    {HyperparameterVariance_default,
     HyperparameterVariance(100, 101, 80, 81, 2000, 2001, 30, 30, 100, 101),
     HyperparameterVariance(50, 200, 60, 100, 1900, 2100, 30, 80, 40, 200),
     HyperparameterVariance(10, 700, 10, 200, 1000, 3000, 0, 200, 40, 400)}

InitVariance ==
    /\ \E v \in Variances : last = CallRecord("args", v, <<>>, FALSE)
    /\ amm_sub = <<>> /\ amm_norm = <<>>
    /\ ncalls = 0 /\ build = "debug" /\ libs = "strict" /\ panic = "none"
    /\ SimIdle
    /\ BatchIdle

\* variance.apply(&base, seed): ret is <<the config>>
ApplyVariance ==
    /\ last.op = "args"
    /\ \E seed \in 0..(MaxConfigs - 1) :
          last' = CallRecord("apply", last.input,
                             <<HyperparameterVariance_apply(last.input, BaseConfig, seed)>>,
                             FALSE)
    /\ CodecUnchanged

\* variance.generate_configs(n): ret is the vector of configs
GenerateConfigs ==
    /\ last.op = "args"
    /\ \E n \in 0..MaxConfigs :
          last' = CallRecord("generate_configs", last.input,
                             generate_configs(last.input, BaseConfig, n), FALSE)
    /\ CodecUnchanged

NextVariance == ApplyVariance \/ GenerateConfigs

SpecVariance == InitVariance /\ [][NextVariance]_vars

(***************************************************************************)
(* Loading a program and running a quote on it (loader.rs, vm.rs): the     *)
(* program makes up to MaxHostCalls host calls and then returns a quote.   *)
(***************************************************************************)
MaxHostCalls == 2
\* the host calls of the sandbox contract
ContractSyscalls ==
    {"sol_set_return_data", "sol_set_storage", "sol_log_", "abort",
     "sol_memcpy_", "sol_memmove_", "sol_memcmp_", "sol_memset_"}

\* the host calls a program makes before it returns its quote
HostCallScripts ==
    UNION {[1..n -> {VmStep(op, "noop", 0) : op \in ContractSyscalls \ {"sol_set_return_data"}}] :
             n \in 0..MaxHostCalls}

InitLoad ==
    /\ \E calls \in HostCallScripts :
          last = CallRecord("args",
                            0,
                            BpfProgram(calls \o <<VmStep("sol_set_return_data",
                                                        LinearSwap(3, 3), 8)>>, <<>>),
                            FALSE)
    /\ libs \in {"strict", "lenient"}
    /\ amm_sub = <<>> /\ amm_norm = <<>>
    /\ ncalls = 0 /\ build = "debug" /\ panic = "none"
    /\ SimIdle
    /\ BatchIdle

\* BpfProgram::load(elf_bytes): ret is the loaded program, hook whether it is Ok
LoadProgram ==
    /\ last.op = "args"
    /\ \E r \in {BpfProgram_load(last.ret, libs)} :
          last' = CallRecord("load", last.ret, r.program, r.ok)
    /\ CodecUnchanged

\* BpfExecutor::new(program).execute(1, 3, 5000, 5000, &storage) on a
\* program that loaded: ret is the quote, hook whether it is Ok
ExecuteLoaded ==
    /\ last.op = "load" /\ last.hook
    /\ \E r \in {BpfExecutor_execute(BpfExecutor_new(last.ret, FALSE), 1, 3, 5000, 5000,
                                     ZeroStorage)} :
          last' = CallRecord("execute", last.ret, r.value, r.ok)
    /\ CodecUnchanged

NextLoad == LoadProgram \/ ExecuteLoaded

SpecLoad == InitLoad /\ [][NextLoad]_vars

(***************************************************************************)
(* The frame codec on its own (crates/shared/src/instruction.rs): a frame  *)
(* is encoded from arguments drawn from the sets below and decoded again.  *)
(***************************************************************************)
CodecSides == {0, 1, 255}
CodecValues == {0, 1000, 66050, 2147483647}
CodecStorages ==
    {ZeroStorage, [i \in 1..STORAGE_SIZE |-> 171], [i \in 1..STORAGE_SIZE |-> i % 256]}

\* the arguments: <<side, input_amount, output_amount, reserve_x, reserve_y, storage>>
InitCodec ==
    /\ \E side \in CodecSides, input_amount \in CodecValues, output_amount \in CodecValues,
          reserve_x \in CodecValues, reserve_y \in CodecValues, storage \in CodecStorages :
          last = CallRecord("args",
                            <<>>,
                            <<side, input_amount, output_amount, reserve_x, reserve_y,
                              storage>>,
                            FALSE)
    /\ amm_sub = <<>> /\ amm_norm = <<>>
    /\ ncalls = 0 /\ build = "debug" /\ libs = "strict" /\ panic = "none"
    /\ SimIdle
    /\ BatchIdle

EncodeSwapInstruction ==
    /\ last.op = "args"
    /\ last' = CallRecord("encode_swap_instruction", last.ret,
                          encode_swap_instruction(last.ret[1], last.ret[2], last.ret[4],
                                                  last.ret[5], last.ret[6]),
                          FALSE)
    /\ CodecUnchanged

DecodeInstruction ==
    /\ last.op = "encode_swap_instruction"
    /\ last' = CallRecord("decode_instruction", last.ret, decode_instruction(last.ret), FALSE)
    /\ CodecUnchanged

EncodeAfterSwap ==
    /\ last.op = "args"
    /\ last' = CallRecord("encode_after_swap", last.ret,
                          encode_after_swap(last.ret[1], last.ret[2], last.ret[3], last.ret[4],
                                            last.ret[5], last.ret[6]),
                          FALSE)
    /\ CodecUnchanged

DecodeAfterSwap ==
    /\ last.op = "encode_after_swap"
    /\ last' = CallRecord("decode_after_swap", last.ret, decode_after_swap(last.ret), FALSE)
    /\ CodecUnchanged

NextCodec == EncodeSwapInstruction \/ DecodeInstruction \/ EncodeAfterSwap \/ DecodeAfterSwap

SpecCodec == InitCodec /\ [][NextCodec]_vars

(***************************************************************************)
(* Properties of the AMM object, checked under SpecAmm.                    *)
(***************************************************************************)
ExecuteOps == {"execute_buy_x", "execute_sell_x"}
QuoteOps == {"quote_buy_x", "quote_sell_x"}

\* The step is a completed AMM call (the process did not die in it).
CallReturned == ncalls' = ncalls + 1 /\ panic' = "none"

\* C1: after every execute_buy_x / execute_sell_x call that returned a
\* value > 0, reserve_x and reserve_y are finite and strictly above
\* MIN_RESERVE, whatever the pricing function answered.
C1_ReserveSafety ==
    (last.op \in ExecuteOps /\ Gt(last.ret, 0)) =>
        /\ IsFinite(amm_sub.reserve_x) /\ IsFinite(amm_sub.reserve_y)
        /\ Gt(amm_sub.reserve_x, MIN_RESERVE) /\ Gt(amm_sub.reserve_y, MIN_RESERVE)

\* A trade went through that left reserve_x two ticks above zero.
C1_Witness ==
    /\ last.op = "execute_buy_x" /\ Gt(last.ret, 0)
    /\ amm_sub.reserve_x = MIN_RESERVE + 1

\* C2: whenever execute_buy_x or execute_sell_x returns 0, reserve_x,
\* reserve_y and the storage buffer (the whole AMM object) are exactly as
\* before the call and the after-trade hook was not invoked.
C2_RejectedExecuteLeavesState ==
    [][(CallReturned /\ last'.op \in ExecuteOps /\ last'.ret = 0) =>
          (amm_sub' = amm_sub /\ ~last'.hook)]_vars

\* An execute with a valid input and a positive quote below the output
\* reserve was rejected because of the post-trade reserve floor.
C2_Witness ==
    /\ last.op = "execute_sell_x" /\ last.ret = 0
    /\ IsFinite(last.input) /\ Gt(last.input, 0)
    /\ Gt(quote_sell_x(amm_sub, last.input), 0)
    /\ Lt(quote_sell_x(amm_sub, last.input), amm_sub.reserve_y)
    /\ amm_sub.backend.after_swap_fn = "count"

\* C3: quote_buy_x and quote_sell_x change nothing of the AMM; the storage
\* buffer always has length STORAGE_SIZE; its contents change only through
\* set_initial_storage, reset, or the after-trade hook of an execute that
\* returned > 0.
C3_StorageFrame ==
    /\ [](Len(amm_sub.storage) = STORAGE_SIZE)
    /\ [][/\ (CallReturned /\ last'.op \in QuoteOps) => amm_sub' = amm_sub
          /\ (amm_sub'.storage # amm_sub.storage) =>
                \/ last'.op \in {"set_initial_storage", "reset"}
                \/ (last'.op \in ExecuteOps /\ Gt(last'.ret, 0) /\ last'.hook)]_vars

\* A quote answered a positive amount on an AMM whose storage the hook of
\* an earlier successful execute had written.
C3_Witness ==
    /\ last.op \in QuoteOps /\ Gt(last.ret, 0)
    /\ amm_sub.backend.after_swap_fn = "count" /\ amm_sub.storage[3] = 1
    /\ Len(amm_sub.storage) = STORAGE_SIZE

(***************************************************************************)
(* Properties of the simulation driver, checked under Spec.                *)
(***************************************************************************)
\* C4: running the simulation twice with the same config and the same
\* program yields the same SimResult (the same seed and, bit for bit, the
\* same submission_edge): every run starts from the config's reserves,
\* zeroed storage, a zero edge and generators seeded from the config's seed.
C4_Determinism ==
    /\ [](\A i, j \in 1..Len(results) : results[i] = results[j])
    /\ [][run' = run + 1 =>
            /\ \A k \in 1..STORAGE_SIZE : amm_sub'.storage[k] = 0
            /\ amm_sub'.reserve_x = cfg.initial_x /\ amm_sub'.reserve_y = cfg.initial_y
            /\ amm_norm'.reserve_x = FMul(cfg.initial_x, cfg.norm_liquidity_mult)
            /\ amm_norm'.reserve_y = FMul(cfg.initial_y, cfg.norm_liquidity_mult)
            /\ submission_edge' = 0
            /\ price'.rng = seed_from_u64(cfg.seed)
            /\ retail'.rng = seed_from_u64(wrapping_add(cfg.seed, 1))
            /\ arb'.rng = seed_from_u64(wrapping_add(cfg.seed, 2))]_vars

\* Two runs of a program whose hook writes its storage came back with the
\* same non-zero edge, the second one leaving storage written again.
C4_Witness ==
    /\ Len(results) = 2 /\ run = 2 /\ pc = "returned"
    /\ results[1] = results[2]
    /\ results[1].submission_edge # 0
    /\ prog.after_swap_fn = "fee_step"
    /\ U16LE(amm_sub.storage) # 0

\* C7: within a simulation nothing but the shape validator panics; an
\* out-of-domain hyperparameter (norm_fee_bps > 10000, a non-finite retail
\* size sigma) only makes trades not happen.  Stated for the distribution
\* library that accepts every sigma, the case most favourable to the claim.
C7_OnlyShapeValidatorPanics ==
    libs = "lenient" => panic \in {"none", "shape"}

\* the edge the sentence of C10 gives a trade
C10_Edge(amm_buys_x, amount_x, amount_y, fair_price) ==
    IF amm_buys_x THEN FSub(FMul(amount_x, fair_price), amount_y)
    ELSE FSub(amount_y, FMul(amount_x, fair_price))

RECURSIVE C10_Sum(_, _, _)
C10_Sum(edge, trades, fair_price) ==
    IF trades = <<>> THEN edge
    ELSE C10_Sum(IF Head(trades).is_submission
                 THEN FAdd(edge, C10_Edge(Head(trades).amm_buys_x, Head(trades).amount_x,
                                          Head(trades).amount_y, fair_price))
                 ELSE edge,
                 Tail(trades), fair_price)

\* C10: every trade on the submission AMM adds amount_x * fair_price -
\* amount_y to submission_edge when amm_buys_x and amount_y - amount_x *
\* fair_price otherwise; for an arbitrage trade that is minus the profit of
\* the executed candidate; nothing else changes submission_edge within a run.
C10_EdgeAccounting ==
    [][/\ (pc = "arb_sub" /\ panic' = "none") =>
            LET r == last_arb'.result
                taken == IF r.amm_buys_x THEN last_arb'.sell ELSE last_arb'.buy
                added == C10_Edge(r.amm_buys_x, r.amount_x, r.amount_y, price.current_price)
            IN  IF r.some
                THEN /\ submission_edge' = FAdd(submission_edge, added)
                     /\ added = FNeg(taken.expected_profit)
                ELSE submission_edge' = submission_edge
       /\ (pc = "route" /\ orders # <<>> /\ panic' = "none") =>
            submission_edge' = C10_Sum(submission_edge, last_trades', price.current_price)
       /\ (pc \notin {"arb_sub", "route", "returned"} /\ panic' = "none") =>
            submission_edge' = submission_edge]_vars

\* A retail order was routed to the submission AMM, which bought X, and the
\* edge moved; the step's arbitrage trade on the submission had moved it too.
C10_Witness ==
    /\ pc = "route" /\ panic = "none"
    /\ \E k \in 1..Len(last_trades) :
          /\ last_trades[k].is_submission /\ last_trades[k].amm_buys_x
          /\ Gt(last_trades[k].amount_x, 0)
          /\ C10_Edge(TRUE, last_trades[k].amount_x, last_trades[k].amount_y,
                      price.current_price) # 0
    /\ submission_edge # 0

\* what the AMM earned on a leg, valued at the fair price: a retail buy pays
\* it amount_y for amount_x, a retail sell hands it amount_x for amount_y
C11_Earned(is_buy, amount_x, amount_y, fair_price) ==
    IF is_buy THEN FSub(amount_y, FMul(amount_x, fair_price))
    ELSE FSub(FMul(amount_x, fair_price), amount_y)

\* the edge of a leg with the two formulas attached to the other order side
C11_Stated(is_buy, amount_x, amount_y, fair_price) ==
    IF is_buy THEN FSub(FMul(amount_x, fair_price), amount_y)
    ELSE FSub(amount_y, FMul(amount_x, fair_price))

RECURSIVE C11_Sum(_, _, _, _, _)
\* edge plus the edge of every submission leg: by C11_Stated if as_stated,
\* else by C11_Earned
C11_Sum(edge, trades, is_buy, fair_price, as_stated) ==
    IF trades = <<>> THEN edge
    ELSE C11_Sum(IF ~Head(trades).is_submission THEN edge
                 ELSE IF as_stated
                 THEN FAdd(edge, C11_Stated(is_buy, Head(trades).amount_x,
                                            Head(trades).amount_y, fair_price))
                 ELSE FAdd(edge, C11_Earned(is_buy, Head(trades).amount_x,
                                            Head(trades).amount_y, fair_price)),
                 Tail(trades), is_buy, fair_price, as_stated)

\* the step routes the next retail order and comes back
C11_Routed == pc = "route" /\ orders # <<>> /\ panic' = "none"

\* C11 (as amended): routing a retail order adds to submission_edge, for
\* every submission leg, amount_y - amount_x * fair when the AMM sold X (a
\* retail buy) and amount_x * fair - amount_y when the AMM bought X (a
\* retail sell); a leg of a retail buy is never an AMM purchase of X and a
\* leg of a retail sell always is.
C11_RetailEdge ==
    [][C11_Routed =>
          /\ \A k \in 1..Len(last_trades') :
                last_trades'[k].amm_buys_x = ~Head(orders).is_buy
          /\ submission_edge' = C11_Sum(submission_edge, last_trades', Head(orders).is_buy,
                                        price.current_price, FALSE)]_vars

\* C11 as stated: amount_x * fair - amount_y for a retail buy and
\* amount_y - amount_x * fair for a retail sell
C11_AsStated ==
    [][C11_Routed =>
          submission_edge' = C11_Sum(submission_edge, last_trades', Head(orders).is_buy,
                                     price.current_price, TRUE)]_vars

\* A retail buy was routed: the submission AMM sold X for Y at a price other
\* than the fair one, and the edge moved.
C11_Witness ==
    /\ pc = "route" /\ panic = "none"
    /\ \E k \in 1..Len(last_trades) :
          /\ last_trades[k].is_submission /\ ~last_trades[k].amm_buys_x
          /\ Gt(last_trades[k].amount_x, 0) /\ Gt(last_trades[k].amount_y, 0)
          /\ C11_Earned(TRUE, last_trades[k].amount_x, last_trades[k].amount_y,
                        price.current_price) # 0
    /\ submission_edge # 0

\* the route_order call of the step came back (the shape check passed)
C12_Returned == pc = "route" /\ orders # <<>> /\ panic' = "none"

\* no quote of the search was asked of an AMM for a leg that is not above
\* MIN_TRADE_SIZE, and such a leg counts as 0
C12_QuotesGuarded(r) ==
    \A i \in 1..Len(r.sampled) :
        /\ r.sampled[i].quoted_sub = Gt(r.sampled[i].in_sub, MIN_TRADE_SIZE)
        /\ r.sampled[i].quoted_norm = Gt(r.sampled[i].in_norm, MIN_TRADE_SIZE)
        /\ ~r.sampled[i].quoted_sub => r.sampled[i].out_sub = 0
        /\ ~r.sampled[i].quoted_norm => r.sampled[i].out_norm = 0

\* execute was called on an AMM only for a leg of the best sampled split
\* that is above MIN_TRADE_SIZE and was quoted a positive output
C12_ExecutesGuarded(r) ==
    /\ \E i \in 1..Len(r.sampled) : r.sampled[i] = r.best
    /\ r.executed[1] => (Gt(r.best.in_sub, MIN_TRADE_SIZE) /\ Gt(r.best.out_sub, 0))
    /\ r.executed[2] => (Gt(r.best.in_norm, MIN_TRADE_SIZE) /\ Gt(r.best.out_norm, 0))
    /\ \A k \in 1..2 : ~r.executed[k] => r.returned[k] = 0

\* the trades are the legs whose execute returned a positive output, with
\* the leg's input and that output as amounts, both positive
C12_TradesPositive(r, trades) ==
    /\ \A k \in 1..Len(trades) : Gt(trades[k].amount_x, 0) /\ Gt(trades[k].amount_y, 0)
    /\ Len(trades) = Cardinality({k \in 1..2 : r.executed[k] /\ Gt(r.returned[k], 0)})
    /\ \A k \in 1..Len(trades) :
          LET leg == IF trades[k].is_submission THEN 1 ELSE 2
              input == <<r.best.in_sub, r.best.in_norm>>[leg]
          IN  /\ r.executed[leg] /\ Gt(r.returned[leg], 0)
              /\ <<trades[k].amount_x, trades[k].amount_y>> =
                    IF r.is_buy THEN <<r.returned[leg], input>> ELSE <<input, r.returned[leg]>>

\* C12: in route_order a leg whose input is not above MIN_TRADE_SIZE is
\* never quoted and never executed; execute is called on an AMM only if its
\* leg of the best sampled split is above MIN_TRADE_SIZE and has a positive
\* quoted output; every RoutedTrade returned has amount_x > 0 and
\* amount_y > 0, the legs whose execute returned 0 being left out; and an
\* AMM whose execute was not called is unchanged.
C12_MinTradeGuards ==
    [][C12_Returned =>
          /\ C12_QuotesGuarded(last_route')
          /\ C12_ExecutesGuarded(last_route')
          /\ C12_TradesPositive(last_route', last_trades')
          /\ ~last_route'.executed[1] => amm_sub' = amm_sub
          /\ ~last_route'.executed[2] => amm_norm' = amm_norm]_vars

\* Both legs of the best split were executed: the submission's execute
\* returned 0 and its leg is missing from the trades, the normalizer's leg
\* traded; the search had also sampled a split whose normalizer leg was at
\* or below MIN_TRADE_SIZE and was not quoted.
C12_Witness ==
    /\ pc = "route" /\ panic = "none"
    /\ last_route.executed = <<TRUE, TRUE>>
    /\ last_route.returned[1] = 0 /\ Gt(last_route.returned[2], 0)
    /\ Len(last_trades) = 1 /\ ~last_trades[1].is_submission
    /\ Gt(last_trades[1].amount_x, 0) /\ Gt(last_trades[1].amount_y, 0)
    /\ \E i \in 1..Len(last_route.sampled) :
          /\ Le(last_route.sampled[i].in_norm, MIN_TRADE_SIZE)
          /\ ~last_route.sampled[i].quoted_norm /\ last_route.sampled[i].quoted_sub

(***************************************************************************)
(* Properties of route_order, checked under SpecRouter.                    *)
(***************************************************************************)
\* C13: whatever the order and the pair of constant-product AMMs with a fee
\* (a 95% fee against no fee included), the total output route_order
\* realizes is within 1% of the largest total quoted output over the grid
\* of split fractions.
C13_RouterNearOptimal ==
    [][pc = "order" =>
          100 * total_output_from_trades(Head(orders), last_trades')
              >= 99 * brute_force_best_output(Head(orders), price.current_price,
                                              amm_sub, amm_norm)]_vars

(***************************************************************************)
(* Properties of execute_arb, checked under SpecArb.                       *)
(***************************************************************************)
\* the side best_candidate is to pick among the candidates of the last call
ArbChosen ==
    IF last_arb.buy.side # "None" /\ last_arb.sell.side # "None"
    THEN (IF Gt(last_arb.sell.expected_profit, last_arb.buy.expected_profit)
          THEN last_arb.sell ELSE last_arb.buy)
    ELSE IF last_arb.buy.side # "None" THEN last_arb.buy
    ELSE last_arb.sell

\* what the AMM's execute answers for a candidate
ArbExecuteRet(amm, candidate) ==
    IF candidate.side = "BuyX" THEN execute_buy_x(amm, candidate.input_amount).ret
    ELSE execute_sell_x(amm, candidate.input_amount).ret

\* C8: the floor of the arbitrageur is min_arb_profit clamped to >= 0; every
\* ArbResult has -edge >= that floor; and when the floor is above the profit
\* the same call realizes with no floor, execute_arb returns None and leaves
\* the AMM (reserves and storage) as it was.
C8_ProfitFloor ==
    /\ [](/\ Ge(arb.min_arb_profit, 0)
          /\ last_arb.result.some =>
                Ge(FNeg(last_arb.result.edge), arb.min_arb_profit))
    /\ [][(ncalls' = ncalls + 1) =>
            LET free == execute_arb([arb EXCEPT !.min_arb_profit = 0], amm_sub,
                                    last_arb'.fair_price)
            IN  (/\ free.panic = "none" /\ free.result.some
                 /\ Gt(arb.min_arb_profit, FNeg(free.result.edge)))
                    => (~last_arb'.result.some /\ amm_sub' = amm_sub)]_vars

\* A call came back with None under a finite floor that is above the
\* positive profit the same call realizes with no floor.
C8_Witness ==
    /\ ncalls > 0 /\ panic = "none" /\ ~last_arb.result.some
    /\ IsFinite(arb.min_arb_profit)
    /\ LET free == execute_arb([arb EXCEPT !.min_arb_profit = 0,
                                           !.rng = last_arb.rng_before],
                               amm_sub, last_arb.fair_price)
       IN  /\ free.result.some
           /\ Gt(FNeg(free.result.edge), 0)
           /\ Gt(arb.min_arb_profit, FNeg(free.result.edge))

C5_IndexPreserving ==
    batch_out.kind = "ok" =>
        /\ Len(batch_out.results) = Len(configs)
        /\ \A i \in 1..Len(configs) :
              /\ batch_out.results[i].seed = configs[i].seed
              /\ run_simulation_native(prog, Normalizer, configs[i]).panic = "none"
              /\ batch_out.results[i] =
                    run_simulation_native(prog, Normalizer, configs[i]).result

\* Three simulations with three different edges ran on two workers, the
\* last config finished first, and the batch returned Ok.
C5_Witness ==
    /\ batch_out.kind = "ok" /\ Len(configs) = 3 /\ n_workers = 2
    /\ completed[1].index = 3
    /\ batch_out.results[1].submission_edge # batch_out.results[2].submission_edge
    /\ batch_out.results[2].submission_edge # batch_out.results[3].submission_edge
    /\ batch_out.results[1].submission_edge # batch_out.results[3].submission_edge

\* C6: when a simulation of the batch failed, the caller gets no
\* BatchResult: neither a result list nor a total_edge.
C6_FailureAbortsBatch ==
    (\E k \in 1..Len(completed) : completed[k].panic # "none") =>
        /\ batch_out.kind # "ok"
        /\ DOMAIN batch_out = {"kind"}

\* The batch ended with a panic: of its two simulations one had succeeded
\* and the other one hit the shape check.
C6_Witness ==
    /\ batch_out.kind = "panic" /\ Len(completed) = 2
    /\ \E k \in 1..2 : completed[k].panic = "none"
    /\ \E k \in 1..2 : completed[k].panic = "shape"
    /\ Len(configs) = 2

(***************************************************************************)
(* Properties of the frame codec, checked under SpecCodec.                 *)
(***************************************************************************)
\* C14: for every side byte, field value and 1024-byte storage,
\* encode_swap_instruction gives 1049 bytes whose bytes 25..1049 are the
\* storage and decode_instruction gives back (side, amount, rx, ry);
\* encode_after_swap gives 1058 bytes starting with the tag 2 and
\* decode_after_swap gives back (side, input, output, rx, ry, storage).
C14_FrameRoundTrip ==
    [][/\ last'.op = "encode_swap_instruction" =>
            /\ Len(last'.ret) = 1049
            /\ SubSeq(last'.ret, 26, 1049) = last.ret[6]
       /\ last'.op = "decode_instruction" =>
            last'.ret = <<last.input[1], last.input[2], last.input[4], last.input[5]>>
       /\ last'.op = "encode_after_swap" =>
            /\ Len(last'.ret) = 1058
            /\ last'.ret[1] = 2
       /\ last'.op = "decode_after_swap" =>
            last'.ret = last.input]_vars

C14_Witness ==
    /\ last.op = "decode_after_swap"
    /\ Len(last.input) = AFTER_SWAP_SIZE
    /\ last.ret[1] = 255 /\ last.ret[2] = 66050 /\ last.ret[3] = 2147483647
    /\ last.ret[4] = 1000 /\ last.ret[5] = 0
    /\ last.ret[6][1] = 1 /\ last.ret[6][STORAGE_SIZE] = 0

(***************************************************************************)
(* Properties of the sandboxed backend, checked under SpecBpf.             *)
(***************************************************************************)
\* the side byte of the call last' records
C15_Side == IF last'.op = "execute_buy_x" THEN 0 ELSE 1

\* The step is an execute_* on the sandboxed AMM that traded, and the
\* after-trade execution it made failed.
C15_AfterSwapFailed ==
    /\ amm_sub.backend.kind = "bpf"
    /\ ncalls' = ncalls + 1
    /\ last'.op \in ExecuteOps /\ last'.hook
    /\ ~BpfExecutor_execute_after_swap(amm_sub.backend, C15_Side, f64_to_nano(last'.input),
                                       f64_to_nano(last'.ret),
                                       f64_to_nano(amm_sub'.reserve_x),
                                       f64_to_nano(amm_sub'.reserve_y), amm_sub.storage).ok

\* C15: when the sandboxed after-trade execution fails (VM error, abort,
\* meter exhausted), the storage is unchanged even if the program called
\* set_storage before failing, the reserve update of the trade is kept and
\* execute_* returns the positive output.
C15_FailedAfterSwapKeepsStorage ==
    [][C15_AfterSwapFailed =>
          /\ amm_sub'.storage = amm_sub.storage
          /\ Gt(last'.ret, 0)
          /\ IF C15_Side = 0
             THEN /\ amm_sub'.reserve_x = FSub(amm_sub.reserve_x, last'.ret)
                  /\ amm_sub'.reserve_y = FAdd(amm_sub.reserve_y, last'.input)
             ELSE /\ amm_sub'.reserve_x = FAdd(amm_sub.reserve_x, last'.input)
                  /\ amm_sub'.reserve_y = FSub(amm_sub.reserve_y, last'.ret)]_vars

C15_Witness ==
    /\ amm_sub.backend.kind = "bpf"
    /\ amm_sub.backend.program.on_after_swap =
          <<VmStep("sol_set_storage", "count", STORAGE_SIZE), VmStep("abort", 0, 0)>>
    /\ last.op = "execute_buy_x" /\ last.hook /\ last.ret > 0
    /\ amm_sub.storage = ZeroStorage
    /\ amm_sub.reserve_x < 5002

\* The step is a quote_* or execute_* on the sandboxed AMM that reached
\* the backend, and the quote execution failed.
C16_QuoteFailed ==
    /\ amm_sub.backend.kind = "bpf"
    /\ ncalls' = ncalls + 1
    /\ last'.op \in QuoteOps \cup ExecuteOps
    /\ ~quote_rejects_early(amm_sub, last'.input)
    /\ ~BpfExecutor_execute(amm_sub.backend,
                            IF last'.op \in {"quote_buy_x", "execute_buy_x"} THEN 0 ELSE 1,
                            f64_to_nano(last'.input), f64_to_nano(amm_sub.reserve_x),
                            f64_to_nano(amm_sub.reserve_y), amm_sub.storage).ok

\* C16: when the sandboxed quote execution fails (VM error, abort, compute
\* budget exhausted, or no set_return_data), quote_* returns 0 and
\* execute_* returns 0 with reserves and storage unchanged.
C16_FailedQuoteReturnsZero ==
    [][C16_QuoteFailed => last'.ret = 0 /\ amm_sub' = amm_sub]_vars

C16_Witness ==
    /\ amm_sub.backend.kind = "bpf"
    /\ ~amm_sub.backend.meter_disabled
    /\ amm_sub.backend.program.on_swap =
          <<VmStep("sol_set_return_data", LinearSwap(3, 3), 8),
            VmStep("work", COMPUTE_BUDGET, 0)>>
    /\ last.op = "execute_sell_x" /\ last.input = 3000 /\ last.ret = 0
    /\ amm_sub.reserve_x = 5002 /\ amm_sub.reserve_y = 20000

(***************************************************************************)
(* Properties of the fixed-point conversion, checked under SpecNano.       *)
(***************************************************************************)
\* C17: f64_to_nano returns floor(v * 1e9) saturated to the u64 range for
\* finite non-negative v, and 0 for every negative or non-finite input:
\* NaN, -infinity and +infinity alike.
C17_NanoOfNonFiniteIsZero ==
    last.op = "f64_to_nano" =>
        IF IsFinite(last.input) /\ last.input >= 0
        THEN last.ret = Min(last.input \div TICKS_PER_NANO, U64_MAX)
        ELSE last.ret = 0

C19_SecondDifference ==
    last.op = "concavity" =>
        last.hook[2] - last.ret <= last.ret - last.hook[1] + 1

(***************************************************************************)
(* Properties of the shape check, checked under SpecShape.                 *)
(***************************************************************************)
\* the samples that count, as a set: finite, input above the minimum,
\* output not negative
C20_Samples(points, min_input) ==
    {points[i] : i \in {j \in 1..Len(points) :
        IsFinite(points[j][1]) /\ IsFinite(points[j][2])
        /\ points[j][1] > min_input /\ points[j][2] >= 0}}

\* the least input of a set of samples
C20_LeastInput(S) == CHOOSE m \in {p[1] : p \in S} : \A p \in S : m <= p[1]

\* The cleaned samples of a set: by ascending input, the samples within eps
\* of the least input merged into one that has the largest of their outputs.
RECURSIVE C20_Cleaned(_)
C20_Cleaned(S) ==
    IF S = {} THEN <<>>
    ELSE LET least == C20_LeastInput(S)
             near == {p \in S : p[1] - least <= X_EPS}
         IN  <<<<least, SetMax({p[2] : p \in near})>>>> \o C20_Cleaned(S \ near)

\* a consecutive pair whose output falls by more than the tolerance, or a
\* slope that rises above the slope before it by more than the tolerance
C20_Violation(cleaned) ==
    \/ \E i \in 1..(Len(cleaned) - 1) : cleaned[i + 1][2] + ALLOWED_DROP < cleaned[i][2]
    \/ \E i \in 2..(Len(cleaned) - 1) :
          slope_rose(curve_slope(cleaned[i], cleaned[i + 1]),
                     curve_slope(cleaned[i - 1], cleaned[i]),
                     cleaned[i + 1][1] - cleaned[i][1],
                     cleaned[i][1] - cleaned[i - 1][1])

\* points with its i-th and (i+1)-th sample exchanged
C20_Exchanged(points, i) ==
    [k \in 1..Len(points) |->
        IF k = i THEN points[i + 1] ELSE IF k = i + 1 THEN points[i] ELSE points[k]]

C21_ContractSyscallsAvailable ==
    /\ last.op = "load" /\ "abort" \notin program_imports(last.input) => last.hook
    /\ last.op = "execute" /\ "abort" \notin program_imports(last.input) =>
          last.hook /\ last.ret = 9

(***************************************************************************)
(* Properties of the hyperparameter variance, checked under SpecVariance.  *)
(***************************************************************************)
C22_Generated ==
    last.op = "generate_configs" /\ last.input = HyperparameterVariance_default

C22_Values(field) == {last.ret[i][field] : i \in 1..Len(last.ret)}

C22_Spread(field) ==
    SetMax(C22_Values(field)) - (CHOOSE m \in C22_Values(field) : \A v \in C22_Values(field) : m <= v)

\* the ranges hold for gbm_sigma and norm_liquidity_mult
C22_SigmaAndMultInRange ==
    C22_Generated =>
        /\ \A v \in C22_Values("gbm_sigma") : 10 <= v /\ v <= 700
        /\ \A v \in C22_Values("norm_liquidity_mult") : 40 <= v /\ v <= 200

\* C22: every config of HyperparameterVariance::default().generate_configs(n)
\* has gbm_sigma in [0.0001, 0.007], norm_fee_bps in [30, 80] and
\* norm_liquidity_mult in [0.4, 2.0], and over a full set of configs the
\* spread of gbm_sigma exceeds 0.003, that of norm_fee_bps 30 and that of
\* norm_liquidity_mult 0.5.
C22_VariedConfigs ==
    C22_Generated =>
        /\ \A v \in C22_Values("gbm_sigma") : 10 <= v /\ v <= 700
        /\ \A v \in C22_Values("norm_fee_bps") : 30 <= v /\ v <= 80
        /\ \A v \in C22_Values("norm_liquidity_mult") : 40 <= v /\ v <= 200
        /\ Len(last.ret) = MaxConfigs =>
              /\ C22_Spread("gbm_sigma") > 300
              /\ C22_Spread("norm_fee_bps") > 30
              /\ C22_Spread("norm_liquidity_mult") > 50

(***************************************************************************)
(* Properties of the constructors, checked under SpecConstruct.            *)
(***************************************************************************)
\* the arrival rate the Poisson sampler holds is at least the 0.01 floor
C23_RateClamped == retail # <<>> => Ge(retail.poisson, MIN_RATE)

\* C23: hyperparameters out of their domain are clamped to a minimum
\* positive value at construction: the price process never holds a
\* volatility <= 0 and the Poisson sampler never a rate <= 0.
C23_ClampedAtConstruction ==
    /\ price # <<>> => Gt(price.vol_term, 0)
    /\ retail # <<>> => Gt(retail.poisson, 0)

(***************************************************************************)
(* Properties of the router's split search, checked under SpecRouter.      *)
(***************************************************************************)
\* the passes of the split search of the order about to be routed
C26_Passes ==
    LET side == IF Head(orders).is_buy THEN 0 ELSE 1
        total == IF Head(orders).is_buy THEN Head(orders).size
                 ELSE FDiv(Head(orders).size, price.current_price)
        x1 == ALPHA_SCALE - golden(ALPHA_SCALE)
        x2 == golden(ALPHA_SCALE)
    IN  split_passes(side, total, amm_sub, amm_norm,
                     split_start(x1, x2,
                         [k \in 1..4 |-> quote_split(side, total, <<0, ALPHA_SCALE, x1, x2>>[k],
                                                     amm_sub, amm_norm)]),
                     0)

\* right - left <= 1e-3
C26_AlphaStop(s) == s.right - s.left <= ALPHA_SCALE \div GOLDEN_ALPHA_TOL_DIV

\* the width of the input bracket is within 1% of the midpoint input
C26_InputStop(s) == (s.right - s.left) * 200 <= s.left + s.right

\* the two objective values agree to within 1% of the larger magnitude
C26_ObjectiveStop(s) ==
    LET a == quote_score(s.q1)
        b == quote_score(s.q2)
        abs(v) == IF v < 0 THEN 0 - v ELSE v
    IN  /\ IsFinite(a) /\ IsFinite(b)
        /\ abs(a - b) * 100 <= SetMax({abs(a), abs(b)})

\* the search makes at most 14 passes and stops on right - left <= 1e-3
C26_AtMostMaxIters ==
    [][pc = "order" /\ pc' = "routed" =>
          /\ Len(C26_Passes) <= ROUTER_GOLDEN_MAX_ITERS
          /\ Len(last_route'.sampled) = Len(C26_Passes) + 5
          /\ \A i \in 1..Len(C26_Passes) : ~C26_AlphaStop(C26_Passes[i])]_vars

\* C26: the golden-section search over alpha makes at most 14 passes and
\* makes no pass once right - left <= 1e-3, once the input width is within
\* 1% of the midpoint input, or once the two objective values agree to
\* within 1%.
C26_SearchStopsEarly ==
    [][pc = "order" /\ pc' = "routed" =>
          /\ Len(C26_Passes) <= ROUTER_GOLDEN_MAX_ITERS
          /\ \A i \in 1..Len(C26_Passes) :
                /\ ~C26_AlphaStop(C26_Passes[i])
                /\ ~C26_InputStop(C26_Passes[i])
                /\ ~C26_ObjectiveStop(C26_Passes[i])]_vars

(***************************************************************************)
(* Properties of the arbitrageur's search, checked under SpecSearch.       *)
(***************************************************************************)
C27_Searched == last.op = "search"

\* the sanitized profit of a sampled quote <<input, output>>
C27_Value(point) ==
    sanitize_score(arb_profit(last.input[2], last.input[3], point[1], point[2]))

\* the start size after its clamp to [MIN_INPUT, MAX_INPUT_AMOUNT]
C27_Mid == FClamp(last.input[4], MIN_INPUT, MAX_INPUT_AMOUNT)

\* the returned point is a point the golden section evaluated, and no
\* point it evaluated has a larger profit
C27_BestOf(bracket, result) ==
    /\ \E i \in 1..Len(result.sampled) :
          /\ result.sampled[i][1] = result.best_x
          /\ C27_Value(result.sampled[i]) = result.best_value
    /\ \A i \in 1..Len(result.sampled) : ~Gt(C27_Value(result.sampled[i]), result.best_value)

\* the search stays within its caps (at most BRACKET_MAX_STEPS doublings
\* after the first two bracket points, at most GOLDEN_MAX_ITERS passes after
\* the first four golden-section points), returns the best point the golden
\* section sampled, and a first bracket point of non-positive profit gives
\* the bracket (0, mid) with no expansion
C27_GoldenSectionBest ==
    C27_Searched =>
        /\ Len(last.ret[1].sampled) <= 2 + BRACKET_MAX_STEPS
        /\ Len(last.ret[2].sampled) <= 4 + GOLDEN_MAX_ITERS
        /\ C27_BestOf(last.ret[1], last.ret[2])
        /\ Le(C27_Value(last.ret[1].sampled[1]), 0) =>
              /\ last.ret[1].lo = 0 /\ last.ret[1].hi = C27_Mid
              /\ Len(last.ret[1].sampled) = 1

\* C27: the two-phase search terminates within its caps and returns the
\* best point sampled: an evaluated input whose profit is at least the
\* profit at every other input evaluated, while bracketing or in the golden
\* section; a first bracket point of non-positive profit gives the bracket
\* (0, mid) with no expansion.
C27_SearchReturnsBestSampled ==
    C27_Searched =>
        /\ Len(last.ret[1].sampled) <= 2 + BRACKET_MAX_STEPS
        /\ Len(last.ret[2].sampled) <= 4 + GOLDEN_MAX_ITERS
        /\ C27_BestOf(last.ret[1], last.ret[2])
        /\ \A i \in 1..Len(last.ret[1].sampled) :
              ~Gt(C27_Value(last.ret[1].sampled[i]), last.ret[2].best_value)
        /\ Le(C27_Value(last.ret[1].sampled[1]), 0) =>
              /\ last.ret[1].lo = 0 /\ last.ret[1].hi = C27_Mid
              /\ Len(last.ret[1].sampled) = 1

(***************************************************************************)
(* Properties of the driver's loop, checked under Spec.                    *)
(***************************************************************************)
\* the head of a step: both AMMs get the step index, one price is drawn
C24_Head ==
    pc = "step" /\ pc' # "returned" =>
        /\ step < cfg.n_steps
        /\ amm_sub'.current_step = step /\ amm_norm'.current_step = step
        /\ price'.rng = rng_next(price.rng)
        /\ pc' = "arb_sub"
        /\ submission_edge' = submission_edge /\ orders' = orders /\ retail' = retail

\* then the submission is arbitraged, then the normalizer, which leaves the
\* edge alone; neither draws a price
C24_Arbitrage ==
    /\ pc = "arb_sub" =>
          /\ pc' \in {"arb_norm", "panicked"}
          /\ last_arb'.name = "submission"
          /\ amm_norm' = amm_norm /\ price' = price /\ retail' = retail
    /\ pc = "arb_norm" =>
          /\ pc' \in {"retail", "panicked"}
          /\ last_arb'.name = "normalizer"
          /\ submission_edge' = submission_edge
          /\ amm_sub' = amm_sub /\ price' = price /\ retail' = retail

\* then the step's orders are generated and routed one at a time, in order;
\* an order with no submission leg leaves the edge alone
C24_Retail ==
    /\ pc = "retail" =>
          /\ pc' = "route"
          /\ amm_sub' = amm_sub /\ amm_norm' = amm_norm /\ price' = price
          /\ submission_edge' = submission_edge
    /\ pc = "route" /\ orders # <<>> =>
          /\ pc' \in {"route", "panicked"}
          /\ orders' = Tail(orders)
          /\ last_route'.is_buy = Head(orders).is_buy
          /\ price' = price /\ retail' = retail /\ step' = step
          /\ (\A i \in 1..Len(last_trades') : ~last_trades'[i].is_submission) =>
                submission_edge' = submission_edge
    /\ pc = "route" /\ orders = <<>> => pc' = "step" /\ step' = step + 1

\* C24: every step sets the step index on both AMMs, draws one fair price,
\* arbitrages the submission, arbitrages the normalizer, then generates the
\* retail orders and routes them one at a time; trades on the normalizer
\* never change submission_edge; the loop ends after exactly n_steps steps.
C24_StepOrder ==
    [][/\ C24_Head
       /\ C24_Arbitrage
       /\ C24_Retail
       /\ pc' = "returned" => pc = "step" /\ step = cfg.n_steps /\ step' = step]_vars

\* a run of two steps has returned after the normalizer was arbitraged in
\* its second step
C24_Witness ==
    /\ pc = "returned" /\ step = cfg.n_steps /\ step >= 2
    /\ last_arb.name = "normalizer" /\ last_arb.result.some

(***************************************************************************)
(* Properties of the after-trade hook, checked under SpecHook.             *)
(***************************************************************************)
\* the side byte of the call last' records
C25_Side == IF last'.op = "execute_buy_x" THEN 0 ELSE 1

\* the step is a quote_* or an execute_* that returned
C25_Called == ncalls' = ncalls + 1 /\ panic' = "none" /\ last'.op \in QuoteOps \cup ExecuteOps

\* the hook ran exactly once in the step, on a frame of tag 2 with the
\* side, the input, the output and the reserves after the step, in nano
C25_HookRanOnce ==
    /\ last'.hook
    /\ amm_sub'.storage[RECORD_LEN + 1] = (amm_sub.storage[RECORD_LEN + 1] + 1) % 256
    /\ amm_sub'.storage[1] = 2
    /\ SubSeq(decode_after_swap(amm_sub'.storage), 1, 5) =
          <<C25_Side, f64_to_nano(last'.input), f64_to_nano(last'.ret),
            f64_to_nano(amm_sub'.reserve_x), f64_to_nano(amm_sub'.reserve_y)>>

\* the hook did not run in the step
C25_HookDidNotRun == ~last'.hook /\ amm_sub'.storage = amm_sub.storage

\* the u64 the hook was handed after the reserves is the AMM's step index
C25_StepPassed == u64_at(amm_sub'.storage, RECORD_LEN - 8) = amm_sub.current_step

\* every successful execute_* runs the hook once, after the reserves are
\* updated, on the side, input, output and post-trade reserves; quote_* and
\* a rejected execute_* never run it
C25_HookOnSuccessOnly ==
    [][C25_Called =>
          IF last'.op \in ExecuteOps /\ Gt(last'.ret, 0) THEN C25_HookRanOnce
          ELSE C25_HookDidNotRun]_vars

\* C25: every successful execute_buy_x / execute_sell_x invokes the
\* after-trade hook exactly once, after the reserves are updated, passing
\* the side, input, output, the post-trade reserves in nano and the AMM's
\* current step index, on either backend; quote_* and a rejected execute_*
\* never invoke it.
C25_HookGetsTradeAndStep ==
    [][C25_Called =>
          IF last'.op \in ExecuteOps /\ Gt(last'.ret, 0)
          THEN C25_HookRanOnce /\ C25_StepPassed
          ELSE C25_HookDidNotRun]_vars

(***************************************************************************)
(* execute_* against quote_*, checked under SpecAmm.                       *)
(***************************************************************************)
\* the step is an execute_* that returned
C28_Executed == ncalls' = ncalls + 1 /\ panic' = "none" /\ last'.op \in ExecuteOps

\* what quote_* answers for the same input in the state before the call
C28_Quote ==
    IF last'.op = "execute_buy_x" THEN quote_buy_x(amm_sub, last'.input)
    ELSE quote_sell_x(amm_sub, last'.input)

\* the reserve the output is paid from, before the call
C28_OutputReserve ==
    IF last'.op = "execute_buy_x" THEN amm_sub.reserve_x ELSE amm_sub.reserve_y

\* the reserves move by exactly the output and the input
C28_ReservesMoved ==
    IF last'.op = "execute_buy_x"
    THEN /\ amm_sub'.reserve_x = FSub(amm_sub.reserve_x, last'.ret)
         /\ amm_sub'.reserve_y = FAdd(amm_sub.reserve_y, last'.input)
    ELSE /\ amm_sub'.reserve_x = FAdd(amm_sub.reserve_x, last'.input)
         /\ amm_sub'.reserve_y = FSub(amm_sub.reserve_y, last'.ret)

\* C28: execute_* returns 0 or exactly what quote_* answers in the
\* pre-trade state; on success the reserves change by exactly the output
\* and the input, otherwise not at all; a positive quote that is the whole
\* output reserve or more, or that leaves it at or below MIN_RESERVE, is
\* rejected by execute_*.
C28_ExecuteRefinesQuote ==
    [][C28_Executed =>
          /\ last'.ret = 0 \/ last'.ret = C28_Quote
          /\ IF Gt(last'.ret, 0) THEN C28_ReservesMoved
             ELSE /\ amm_sub'.reserve_x = amm_sub.reserve_x
                  /\ amm_sub'.reserve_y = amm_sub.reserve_y
          /\ Gt(C28_Quote, 0)
                /\ (\/ Ge(C28_Quote, C28_OutputReserve)
                    \/ Le(FSub(C28_OutputReserve, C28_Quote), MIN_RESERVE))
                => last'.ret = 0]_vars

\* an execute_buy_x was rejected although the quote for its input, in the
\* state it left unchanged, is positive and finite reserves are in place
C28_Witness ==
    /\ last.op = "execute_buy_x" /\ last.ret = 0
    /\ IsFinite(amm_sub.reserve_x) /\ IsFinite(amm_sub.reserve_y)
    /\ Gt(quote_buy_x(amm_sub, last.input), 0)
    /\ Le(FSub(amm_sub.reserve_x, quote_buy_x(amm_sub, last.input)), MIN_RESERVE)

\* an execute_sell_x returned the positive quote
C28_WitnessTraded ==
    /\ last.op = "execute_sell_x" /\ Gt(last.ret, 0) /\ ncalls = 1
    /\ amm_sub.reserve_x = FAdd(5002, last.input)

(***************************************************************************)
(* Properties of normalizer::compute_swap, checked under SpecProduct.      *)
(***************************************************************************)
\* a quote was computed for reserves above 0 and a fee of at most 10000 bps
C29_InDomain ==
    /\ last.op = "compute_swap"
    /\ last.input[2] > 0 /\ last.input[3] > 0
    /\ swap_fee_bps(swap_frame(last.input, last.input[5])) <= 10000

\* C29: for rx > 0, ry > 0, fee_bps <= 10000 and every u64 input the
\* output of compute_swap is strictly less than the output reserve, no
\* intermediate value exceeds u128, and the product of the reserves never
\* decreases: (rx - out)(ry + in) >= rx * ry for side 0 and
\* (rx + in)(ry - out) >= rx * ry for side 1.
C29_ProductNeverDecreases ==
    C29_InDomain =>
        LET side == last.input[1]
            rx == last.input[2]
            ry == last.input[3]
            input == last.input[5]
            out == last.ret
        IN  /\ out < (IF side = 0 THEN rx ELSE ry)
            /\ \A v \in compute_swap_intermediates(swap_frame(last.input, input)) :
                  v <= U128_MAX
            /\ IF side = 0 THEN (rx - out) * (ry + input) >= rx * ry
               ELSE (rx + input) * (ry - out) >= rx * ry

\* the largest input against the largest reserves, paying out a positive amount
C29_Witness ==
    /\ C29_InDomain
    /\ last.input[2] = U64_MAX /\ last.input[3] = U64_MAX /\ last.input[5] = U64_MAX
    /\ last.ret > 0

(***************************************************************************)
(* Conservation of a routed order, checked under Spec.                     *)
(***************************************************************************)
\* the step is a route_order call of the driver that returned
C30_Routed == pc = "route" /\ orders # <<>> /\ panic' = "none"

\* the order's total input: size for a buy, size / fair_price for a sell
C30_Total ==
    IF Head(orders).is_buy THEN Head(orders).size
    ELSE FDiv(Head(orders).size, price.current_price)

\* the input of a trade: Y for a buy, X for a sell
C30_Input(is_buy, trade) == IF is_buy THEN trade.amount_y ELSE trade.amount_x

\* the reserve of an AMM that receives the order's input
C30_InputReserve(is_buy, amm) == IF is_buy THEN amm.reserve_y ELSE amm.reserve_x

\* what the trades put into the AMM of one leg
C30_Traded(is_buy, trades, is_submission) ==
    IF \E k \in 1..Len(trades) : trades[k].is_submission = is_submission
    THEN C30_Input(is_buy, trades[CHOOSE k \in 1..Len(trades) :
                                      trades[k].is_submission = is_submission])
    ELSE 0

====
